---- MODULE Spec2Model ----
(***************************************************************************)
(* LANChat: the chat server (registry, broadcast, history ring) and the    *)
(* ChatAgent (retry policy, decision engine, local gate heuristic).        *)
(*                                                                         *)
(* The module holds several specifications over one set of variables:      *)
(*   SpecHistory  server start-up and addToHistory          (history ring) *)
(*   SpecRetry    ChatAgent.retryApiCall                                    *)
(*   SpecRetryFair  SpecRetry, with fairness                               *)
(*   SpecGate     ChatAgent.shouldRespond's local heuristic (pure)         *)
(*   SpecAgent    one Decision Engine invocation of a ChatAgent            *)
(*   Spec         the server's socket handlers (register, disconnect, ...) *)
(*   SpecValidate Spec with POST /api/validate-username                    *)
(*   SpecGetHistory  the get_history handler on given histories            *)
(*   SpecProactive   ChatAgent's connect handlers and proactive timer      *)
(*   SpecBus      the server's chat, agent_data, agent_response handlers   *)
(*   SpecMeta     the chat handler on events that carry metadata           *)
(*   SpecBusLive  the chat handler, with fairness                          *)
(*   SpecAck      the server's handlers that answer through an ack         *)
(*   SpecCache    ChatAgent.getPeer and its cache                          *)
(*   SpecSession  ChatAgent.getSession and the session_id events           *)
(*   SpecOverlap  Decision Engine invocations that overlap                 *)
(*   SpecJoin     a ChatAgent's register event at the server               *)
(* A specification leaves the variables of the other parts unchanged.      *)
(***************************************************************************)
EXTENDS Integers, Sequences, FiniteSets, TLC

VARIABLES
    \* ---- server: history ring (socket.ts / index.ts)
    chatHistory,    \* Message[]: the history ring
    appendLog,      \* ghost: every message handed to addToHistory, in order
    loaded,         \* ghost: number of messages loaded from the session at start-up
    srvPhase,       \* "boot" before startServer ran, "serving" after
    \* ---- agent: retryApiCall
    rPc,            \* "idle" | "calling" | "waiting" | "returned" | "thrown"
    maxRetries,     \* this.maxRetries
    retryDelay,     \* this.retryDelay
    attempt,        \* the loop variable
    rOutcomes,      \* ghost: outcome of every attempt of fn, in order
    rDelays,        \* ghost: every setTimeout delay waited, in order
    rResult,        \* value returned to the caller
    rError,         \* error thrown to the caller
    \* ---- agent: one Decision Engine invocation (processMessage and what it starts)
    agentName,      \* this.agentName, a string as a tuple of characters
    sessionId,      \* this.sessionId, None until the server's session_id arrived
    msg,            \* the incoming "message" event: [type, username, content]
    aPc,            \* where the invocation is suspended, or "idle" / "done"
    aOutcome,       \* ghost: None | "ignored" | "suppressed" | "abandoned" | "crashed" | "emitted"
    gateDecision,   \* what shouldRespond returned (None before)
    tracker,        \* tracker["psychology"], tracker["search"]
    decisionLog,    \* decisionLog: the entries pushed, in order
    calls,          \* ghost: callOpenRouter calls made, by purpose
    toolRuns,       \* ghost: executions of analyzePsychology / search started
    emitted,        \* ghost: chat events emitted on the socket
    \* ---- server: connections, registry and register/disconnect handlers (socket.ts)
    connStatus,     \* per socket id: "none" (not connected yet) | "open" | "closed"
    connectedUsers, \* Map<string, User>, a function on the ids it holds
    agents,         \* Map<string, Agent>, a function on the ids it holds
    tasks,          \* register handlers suspended on an await
    regs,           \* ghost: per socket id, the register events received, in order
    regDone,        \* ghost: per socket id, the register handlers that ran to their end
    outbox,         \* ghost: per socket id, the "message" events sent to it, in order
    nextMsgId,      \* ghost: messages created so far (generateId)
    \* ---- server: answers of the request handlers (routes of the API, get_history)
    validation,     \* ghost: the responses of POST /api/validate-username, in order
    histAck,        \* ghost: the last ack of get_history
    \* ---- agent: the proactive scheduler (connect, session_id, setInterval)
    now,            \* Date.now(), in milliseconds since the agent was constructed
    lastMessageTime,\* this.lastMessageTime
    timers,         \* the intervals set by setInterval: the time each fires next
    autonomousMode, \* this.autonomousMode
    socketUp,       \* is the agent's socket connected
    connects,       \* ghost: "connect" events of the agent's socket so far
    sessionEvents,  \* session_id events sent by the server and not yet handled
    evals,          \* considerProactiveMessage calls suspended on an await
    evalStarts,     \* ghost: the times a tick started considerProactiveMessage
    proactiveEmits, \* ghost: the times a proactive chat event was emitted
    roomChatTime,   \* ghost: when the socket last received a chat message, whoever sent it
    \* ---- server: chat, agent_data, agent_response handlers (socket.ts)
    pending,        \* handlers suspended in broadcastMessage's awaits
    agentEvents,    \* ghost: per socket id, the "agent_event" events sent to it
    handled,        \* ghost: the messages the three handlers created, in order, each
                    \*        with the sockets that were connected at that moment
    events,         \* ghost: the chat, agent_data and agent_response events received,
                    \*        in order, each with whether the registry knew its sender
    \* ---- server: handlers that answer through an ack callback (socket.ts)
    peerObserve,    \* Context Provider: the observe_me stored in the config of each peer
    requests,       \* ghost: the requests received, in order, each with its acks so far
    reqTasks,       \* dialectic and toggle_observe handlers suspended on an await
    \* ---- agent: getPeer and its cache
    peerCache,      \* this.peerCache: Map<string, any>, a function on the names it holds
    peerCalls,      \* getPeer calls suspended on honcho.peer
    peerReturns,    \* ghost: what every getPeer call returned, in order
    peerRemote,     \* ghost: honcho.peer calls issued so far
    \* ---- agent: getSession and its cache
    sessionCache,   \* this.sessionCache: None, or the handle, named by the session id it is for
    sessionCalls,   \* getSession calls suspended on honcho.session
    sessionReturns, \* ghost: how every getSession call ended, in order
    \* ---- agent: invocations of the Decision Engine that overlap
    runs,           \* the processMessage calls so far: their locals and where they are
    heapLogs,       \* the decisionLog arrays allocated, by reference
    heapTrackers,   \* the tracker objects allocated, by reference
    replies         \* ghost: the chat events emitted, each with the message it answers

histVars  == <<chatHistory, appendLog, loaded, srvPhase>>
retryVars == <<rPc, maxRetries, retryDelay, attempt, rOutcomes, rDelays, rResult, rError>>
agentVars == <<agentName, sessionId, msg, aPc, aOutcome, gateDecision, tracker,
               decisionLog, calls, toolRuns, emitted>>
srvVars   == <<connStatus, connectedUsers, agents, tasks, regs, regDone, outbox, nextMsgId>>
apiVars   == <<validation, histAck>>
schedVars == <<now, lastMessageTime, timers, autonomousMode, socketUp, connects,
               sessionEvents, evals, evalStarts, proactiveEmits, roomChatTime>>
busVars   == <<pending, agentEvents, handled, events>>
reqVars   == <<peerObserve, requests, reqTasks>>
sessVars  == <<sessionCache, sessionCalls, sessionReturns>>
cacheVars == <<peerCache, peerCalls, peerReturns, peerRemote, sessVars>>
overlapVars == <<runs, heapLogs, heapTrackers, replies>>
restVars  == <<reqVars, cacheVars, overlapVars>>
extVars   == <<apiVars, schedVars, busVars, restVars>>
vars      == <<histVars, retryVars, agentVars, srvVars, extVars>>

None == "none"

Min(a, b) == IF a < b THEN a ELSE b
Max(a, b) == IF a > b THEN a ELSE b

(***************************************************************************)
(* History ring                                                            *)
(***************************************************************************)

\* chatHistory.length > 1000 (socket.ts:287)
HistoryCap == 1000

\* bounds of SpecHistory
MaxAppends == 1002          \* appends after a start-up that loaded nothing
MaxStored == 1001           \* messages the session may hold at start-up
MaxAppendsAfterLoad == 2    \* appends after a start-up that loaded something

AddToHistoryOffByOne(h, m) ==
    LET pushed == Append(h, m)
    IN  IF Len(pushed) >= HistoryCap THEN Tail(pushed) ELSE pushed

\* addToHistory: push, then shift once if the length exceeds the capacity
AddToHistory(h, m) ==
    LET pushed == Append(h, m)
    IN  IF Len(pushed) > HistoryCap THEN Tail(pushed) ELSE pushed

\* the for loop of startServer: chatHistory.push(message) for each stored message
LoadMessages(h, msgs) == h \o msgs

HistIdle ==
    /\ chatHistory = <<>>
    /\ appendLog = <<>>
    /\ loaded = 0
    /\ srvPhase = "serving"

\* protected maxRetries: number = 3 / retryDelay: number = 1000
DefaultMaxRetries == 3
DefaultRetryDelay == 1000

\* lastError before any attempt failed
NoError == [ok |-> FALSE, status |-> 0 - 1]

RetryIdle ==
    /\ rPc = "idle"
    /\ maxRetries = DefaultMaxRetries
    /\ retryDelay = DefaultRetryDelay
    /\ attempt = 0
    /\ rOutcomes = <<>>
    /\ rDelays = <<>>
    /\ rResult = None
    /\ rError = NoError

\* the strings of the model are tuples of one-character strings
StrBot1 == <<"B", "o", "t", "1">>

NoDecision == [should_respond |-> FALSE, reason |-> "none", cites |-> <<>>]
NoCalls == [gate |-> 0, select |-> 0, tool |-> 0, synth |-> 0]
NoRuns  == [psychology |-> 0, search |-> 0]
NoTools == [psychology |-> "undefined", search |-> "undefined"]
NoMsg   == [type |-> "chat", username |-> <<>>, content |-> <<>>]

AgentIdle ==
    /\ agentName = StrBot1
    /\ sessionId = None
    /\ msg = NoMsg
    /\ aPc = "idle"
    /\ aOutcome = None
    /\ gateDecision = NoDecision
    /\ tracker = NoTools
    /\ decisionLog = <<>>
    /\ calls = NoCalls
    /\ toolRuns = NoRuns
    /\ emitted = <<>>

\* socket ids of the model
ConnIds == <<"c1", "c2", "c3", "c4">>

\* bound: sockets that may connect
MaxConns == 2

Conns == { ConnIds[i] : i \in 1..MaxConns }

ServerIdle ==
    /\ connStatus = [c \in Conns |-> "none"]
    /\ connectedUsers = <<>>
    /\ agents = <<>>
    /\ tasks = {}
    /\ regs = [c \in Conns |-> <<>>]
    /\ regDone = [c \in Conns |-> 0]
    /\ outbox = [c \in Conns |-> <<>>]
    /\ nextMsgId = 0

\* the ack variable before any request
NoAck == [limit |-> 0, messageType |-> "none", since |-> 0, history |-> <<>>, total |-> 0,
          asked |-> FALSE]

ApiIdle ==
    /\ validation = <<>>
    /\ histAck = NoAck

SchedIdle ==
    /\ now = 0
    /\ lastMessageTime = 0
    /\ timers = <<>>
    /\ autonomousMode = TRUE
    /\ socketUp = FALSE
    /\ connects = 0
    /\ sessionEvents = 0
    /\ evals = {}
    /\ evalStarts = <<>>
    /\ proactiveEmits = <<>>
    /\ roomChatTime = 0

BusIdle ==
    /\ pending = {}
    /\ agentEvents = [c \in Conns |-> <<>>]
    /\ handled = <<>>
    /\ events = <<>>

ReqIdle ==
    /\ peerObserve = <<>>
    /\ requests = <<>>
    /\ reqTasks = {}

CacheIdle ==
    /\ peerCache = <<>>
    /\ peerCalls = {}
    /\ peerReturns = <<>>
    /\ peerRemote = 0
    /\ sessionCache = None
    /\ sessionCalls = {}
    /\ sessionReturns = <<>>

OverlapIdle ==
    /\ runs = <<>>
    /\ heapLogs = <<>>
    /\ heapTrackers = <<>>
    /\ replies = <<>>

RestIdle == ReqIdle /\ CacheIdle /\ OverlapIdle

ExtIdle == ApiIdle /\ SchedIdle /\ BusIdle /\ RestIdle

HInit ==
    /\ ServerIdle
    /\ ExtIdle
    /\ chatHistory = <<>>
    /\ appendLog = <<>>
    /\ loaded = 0
    /\ srvPhase = "boot"
    /\ RetryIdle
    /\ AgentIdle

\* startServer without --session: nothing is loaded
StartFresh ==
    /\ srvPhase = "boot"
    /\ srvPhase' = "serving"
    /\ UNCHANGED <<chatHistory, appendLog, loaded, retryVars, agentVars, srvVars, extVars>>

\* startServer with --session: session.getMessages() answers n stored messages,
\* each is pushed to chatHistory (stored message i is modelled as -i)
StartWithSession ==
    /\ srvPhase = "boot"
    /\ \E n \in 0..MaxStored :
        /\ chatHistory' = LoadMessages(chatHistory, [i \in 1..n |-> 0 - i])
        /\ loaded' = n
    /\ srvPhase' = "serving"
    /\ UNCHANGED <<appendLog, retryVars, agentVars, srvVars, extVars>>

\* startServer with --session: session.getMessages() throws, the catch logs it
StartLoadFails ==
    /\ srvPhase = "boot"
    /\ srvPhase' = "serving"
    /\ UNCHANGED <<chatHistory, appendLog, loaded, retryVars, agentVars, srvVars, extVars>>

\* one addToHistory call of a handler; the message is its creation number
Publish ==
    /\ srvPhase = "serving"
    /\ Len(appendLog) < (IF loaded = 0 THEN MaxAppends ELSE MaxAppendsAfterLoad)
    /\ LET m == Len(appendLog) + 1
       IN  /\ chatHistory' = AddToHistory(chatHistory, m)
           /\ appendLog' = Append(appendLog, m)
    /\ UNCHANGED <<loaded, srvPhase, retryVars, agentVars, srvVars, extVars>>

HNext == StartFresh \/ StartWithSession \/ StartLoadFails \/ Publish

SpecHistory == HInit /\ [][HNext]_vars

LastN(s, n) == SubSeq(s, Len(s) - Min(Len(s), n) + 1, Len(s))

\* C1: starting from an empty history, after n appends the ring holds exactly
\* the last min(n, 1000) appended messages in append order (so its length never
\* exceeds 1000, and a full ring loses exactly its oldest message on an append).
C1_RingHoldsLastAppended ==
    (srvPhase = "serving" /\ loaded = 0) =>
        /\ chatHistory = LastN(appendLog, HistoryCap)
        /\ Len(chatHistory) = Min(Len(appendLog), HistoryCap)

C1_Witness ==
    /\ srvPhase = "serving"
    /\ loaded = 0
    /\ Len(appendLog) = HistoryCap + 1
    /\ Len(chatHistory) = HistoryCap
    /\ chatHistory[1] = appendLog[2]
    /\ chatHistory[HistoryCap] = appendLog[HistoryCap + 1]

\* C2: in every reachable server state the history ring length is at most 1000,
\* also right after a start-up that loaded a session's stored messages and after
\* the appends that follow it.
C2_LengthAtMostCap == Len(chatHistory) <= HistoryCap

(***************************************************************************)
(* ChatAgent.retryApiCall                                                  *)
(***************************************************************************)

\* bound of SpecRetry: the configurations are maxRetries in 0..MaxRetriesCfg
MaxRetriesCfg == 4

\* HTTP 429, the status retryApiCall retries on
RateLimited == 429

\* what one attempt of fn() may do: resolve with a value, or reject with an
\* error whose status is 429, another status, or absent (a plain Error: status 0)
OkOutcomes  == { [ok |-> TRUE, value |-> v] : v \in {"v1", "v2"} }
ErrOutcomes == { [ok |-> FALSE, status |-> st] : st \in {RateLimited, 500, 401, 0} }
Outcomes    == OkOutcomes \cup ErrOutcomes

RECURSIVE Pow2(_)
Pow2(k) == IF k = 0 THEN 1 ELSE 2 * Pow2(k - 1)

BackoffDelayConstant(base, k) == base

\* const delay = this.retryDelay * Math.pow(2, attempt)
BackoffDelay(base, k) == base * Pow2(k)

ShouldRetryAnyError(err, k, max) == k < max

\* error?.status === 429 && attempt < this.maxRetries
ShouldRetry(err, k, max) == err.status = RateLimited /\ k < max

\* else if (error?.status !== 429): throw immediately
ThrowsNow(err) == err.status # RateLimited

LoopContinuesOneMore(k, max) == k <= max + 1

\* for (let attempt = 0; attempt <= this.maxRetries; attempt++)
LoopContinues(k, max) == k <= max

RInit ==
    /\ HistIdle
    /\ ServerIdle
    /\ ExtIdle
    /\ AgentIdle
    /\ rPc = "idle"
    /\ maxRetries \in 0..MaxRetriesCfg
    /\ retryDelay \in {DefaultRetryDelay, DefaultRetryDelay \div 2}
    /\ attempt = 0
    /\ rOutcomes = <<>>
    /\ rDelays = <<>>
    /\ rResult = None
    /\ rError = NoError

\* retryApiCall(fn) is called: the loop starts and the first fn() is awaited
RetryCall ==
    /\ rPc = "idle"
    /\ attempt' = 0
    /\ rPc' = IF LoopContinues(0, maxRetries) THEN "calling" ELSE "thrown"
    /\ UNCHANGED <<maxRetries, retryDelay, rOutcomes, rDelays, rResult, rError, histVars, agentVars, srvVars, extVars>>

\* the awaited fn() resolves: return its value
FnResolves ==
    /\ rPc = "calling"
    /\ \E o \in OkOutcomes :
        /\ rOutcomes' = Append(rOutcomes, o)
        /\ rResult' = o.value
    /\ rPc' = "returned"
    /\ UNCHANGED <<maxRetries, retryDelay, attempt, rDelays, rError, histVars, agentVars, srvVars, extVars>>

\* the awaited fn() rejects: the catch block (and, when it neither waits nor
\* throws, the attempt++ and loop test that follow it)
FnRejects ==
    /\ rPc = "calling"
    /\ \E o \in ErrOutcomes :
        /\ rOutcomes' = Append(rOutcomes, o)
        /\ rError' = o
        /\ IF ShouldRetry(o, attempt, maxRetries)
           THEN /\ rDelays' = Append(rDelays, BackoffDelay(retryDelay, attempt))
                /\ rPc' = "waiting"
                /\ attempt' = attempt
           ELSE IF ThrowsNow(o)
           THEN /\ rPc' = "thrown"
                /\ UNCHANGED <<rDelays, attempt>>
           ELSE /\ attempt' = attempt + 1
                /\ rPc' = IF LoopContinues(attempt + 1, maxRetries) THEN "calling" ELSE "thrown"
                /\ UNCHANGED rDelays
    /\ UNCHANGED <<maxRetries, retryDelay, rResult, histVars, agentVars, srvVars, extVars>>

\* the setTimeout of the backoff fires: attempt++, loop test, next fn()
BackoffElapses ==
    /\ rPc = "waiting"
    /\ attempt' = attempt + 1
    /\ rPc' = IF LoopContinues(attempt + 1, maxRetries) THEN "calling" ELSE "thrown"
    /\ UNCHANGED <<maxRetries, retryDelay, rOutcomes, rDelays, rResult, rError, histVars, agentVars, srvVars, extVars>>

RNext == RetryCall \/ FnResolves \/ FnRejects \/ BackoffElapses

SpecRetry == RInit /\ [][RNext]_vars

RetryDone == rPc \in {"returned", "thrown"}

AllRateLimited ==
    /\ Len(rOutcomes) > 0
    /\ \A i \in 1..Len(rOutcomes) : ~rOutcomes[i].ok /\ rOutcomes[i].status = RateLimited

StrictlyIncreasing(s) == \A i \in 1..(Len(s) - 1) : s[i] < s[i + 1]

\* C5: when every attempt fails with a rate-limit (429) error, retryApiCall
\* makes exactly maxRetries + 1 attempts (4 with the defaults), waits before each
\* retry with strictly increasing delays (1000, 2000, 4000 ms with the defaults)
\* and then throws the rate-limit error to its caller.
C5_RateLimitedRetries ==
    /\ StrictlyIncreasing(rDelays)
    /\ (AllRateLimited /\ rPc = "calling") => Len(rDelays) = Len(rOutcomes)
    /\ (AllRateLimited /\ RetryDone) =>
        /\ rPc = "thrown"
        /\ rError.status = RateLimited
        /\ Len(rOutcomes) = maxRetries + 1
        /\ Len(rDelays) = maxRetries
        /\ (maxRetries = DefaultMaxRetries /\ retryDelay = DefaultRetryDelay) =>
            /\ Len(rOutcomes) = 4
            /\ rDelays = <<1000, 2000, 4000>>

C5_Witness ==
    /\ maxRetries = DefaultMaxRetries
    /\ retryDelay = DefaultRetryDelay
    /\ AllRateLimited
    /\ rPc = "thrown"
    /\ Len(rOutcomes) = 4

\* C6: an attempt that fails with an error that is not a rate-limit error is the
\* last attempt: retryApiCall throws that error at once, without waiting and
\* without another attempt, whichever attempt number it happens on.
C6_OtherErrorPropagates ==
    \A i \in 1..Len(rOutcomes) :
        (~rOutcomes[i].ok /\ rOutcomes[i].status # RateLimited) =>
            /\ i = Len(rOutcomes)
            /\ rPc = "thrown"
            /\ rError = rOutcomes[i]
            /\ Len(rDelays) = i - 1

C6_Witness ==
    /\ rPc = "thrown"
    /\ Len(rOutcomes) = 3
    /\ rOutcomes[3] = [ok |-> FALSE, status |-> 500]
    /\ rDelays = <<1000, 2000>>

\* every awaited fn() settles and every setTimeout of the backoff fires
SpecRetryFair == SpecRetry /\ WF_vars(RNext)

\* at most maxRetries + 1 attempts; a successful attempt is the last one and
\* its value is what retryApiCall returns
AttemptsBounded ==
    /\ Len(rOutcomes) <= maxRetries + 1
    /\ maxRetries = DefaultMaxRetries => Len(rOutcomes) <= 4
    /\ \A i \in 1..Len(rOutcomes) :
        rOutcomes[i].ok =>
            /\ i = Len(rOutcomes)
            /\ rPc = "returned"
            /\ rResult = rOutcomes[i].value

\* C37: for every sequence of outcomes of the wrapped call, retryApiCall
\* terminates after at most maxRetries + 1 attempts (4 by default), returns
\* the result of the first successful attempt and makes no attempt after a
\* success.
C37_RetryTerminatesWithFirstSuccess ==
    []AttemptsBounded /\ <>RetryDone

C37_Witness ==
    /\ maxRetries = DefaultMaxRetries
    /\ rPc = "returned"
    /\ Len(rOutcomes) = 4
    /\ \A i \in 1..3 : ~rOutcomes[i].ok /\ rOutcomes[i].status = RateLimited
    /\ rResult = rOutcomes[4].value

(***************************************************************************)
(* Strings: a string is a tuple of one-character strings                   *)
(***************************************************************************)

UpperLetters == <<"A", "B", "C", "D", "E", "F", "G", "H", "I", "J", "K", "L", "M",
                  "N", "O", "P", "Q", "R", "S", "T", "U", "V", "W", "X", "Y", "Z">>
LowerLetters == <<"a", "b", "c", "d", "e", "f", "g", "h", "i", "j", "k", "l", "m",
                  "n", "o", "p", "q", "r", "s", "t", "u", "v", "w", "x", "y", "z">>
DigitChars   == {"0", "1", "2", "3", "4", "5", "6", "7", "8", "9"}

IsUpper(c) == \E i \in 1..26 : UpperLetters[i] = c
IsLower(c) == \E i \in 1..26 : LowerLetters[i] = c

\* String.prototype.toLowerCase
ToLowerChar(c) ==
    IF IsUpper(c) THEN LowerLetters[CHOOSE i \in 1..26 : UpperLetters[i] = c] ELSE c
ToLowerCase(s) == [i \in 1..Len(s) |-> ToLowerChar(s[i])]

\* the regular expression class \w
IsWordChar(c) == IsUpper(c) \/ IsLower(c) \/ c \in DigitChars \/ c = "_"

\* the class \s, as far as the inputs of the model go
IsSpace(c) == c = " " \/ c = "\t" \/ c = "\n"

\* String.prototype.trim left undone
TrimNothing(s) == s

\* String.prototype.trim: the string without its leading and trailing white space
RECURSIVE Trim(_)
Trim(s) ==
    IF Len(s) = 0 THEN s
    ELSE IF IsSpace(s[1]) THEN Trim(Tail(s))
    ELSE IF IsSpace(s[Len(s)]) THEN Trim(SubSeq(s, 1, Len(s) - 1))
    ELSE s

\* Array.prototype.join(" ") of a sequence of strings
RECURSIVE JoinWords(_)
JoinWords(ws) ==
    IF Len(ws) = 0 THEN <<>>
    ELSE IF Len(ws) = 1 THEN ws[1]
    ELSE ws[1] \o <<" ">> \o JoinWords(Tail(ws))

SetMax(S) == CHOOSE x \in S : \A y \in S : y <= x
SetMin(S) == CHOOSE x \in S : \A y \in S : x <= y

(***************************************************************************)
(* ChatAgent.shouldRespond: the local check /(@?\w+bot)\b/gi               *)
(***************************************************************************)

\* is there a \w character at position p (1-based) of s
WordAt(s, p) == p >= 1 /\ p <= Len(s) /\ IsWordChar(s[p])

\* \b between positions p - 1 and p
IsBoundary(s, p) == WordAt(s, p - 1) # WordAt(s, p)

\* the literal bot, case-insensitive (flag i), at position p
BotAt(s, p) == p + 2 <= Len(s) /\ ToLowerCase(SubSeq(s, p, p + 2)) = <<"b", "o", "t">>

\* how many \w characters follow from position j on
RECURSIVE WordRun(_, _)
WordRun(s, j) == IF WordAt(s, j) THEN 1 + WordRun(s, j + 1) ELSE 0

\* \w+bot\b tried at position j: the position after the match, 0 when there is
\* none. \w+ is greedy: the longest \w+ that lets bot\b follow wins.
WordBotEnd(s, j) ==
    LET fits == { n \in 1..WordRun(s, j) : BotAt(s, j + n) /\ IsBoundary(s, j + n + 3) }
    IN  IF fits = {} THEN 0 ELSE j + SetMax(fits) + 3

\* (@?\w+bot)\b tried at position i: @? takes an @ when one is there
MatchEndAt(s, i) ==
    IF s[i] = "@" /\ WordBotEnd(s, i + 1) # 0
    THEN WordBotEnd(s, i + 1)
    ELSE WordBotEnd(s, i)

\* content.match(pattern) with flag g: every match, leftmost first, each search
\* resuming after the previous match
RECURSIVE MatchFrom(_, _)
MatchFrom(s, i) ==
    IF i > Len(s) THEN <<>>
    ELSE LET e == MatchEndAt(s, i)
         IN  IF e # 0 THEN <<SubSeq(s, i, e - 1)>> \o MatchFrom(s, e)
             ELSE MatchFrom(s, i + 1)

OtherAgentMatches(content) == MatchFrom(content, 1)

\* m.replace('@', ''): the first @ is removed
RemoveFirstAt(m) ==
    LET at == { i \in 1..Len(m) : m[i] = "@" }
    IN  IF at = {} THEN m
        ELSE SubSeq(m, 1, SetMin(at) - 1) \o SubSeq(m, SetMin(at) + 1, Len(m))

\* matches.map(m => m.replace('@', '').toLowerCase())
MentionedAgents(matches) == [i \in 1..Len(matches) |-> ToLowerCase(RemoveFirstAt(matches[i]))]

ErrorDecision == [should_respond |-> FALSE, reason |-> "Error in decision process", cites |-> <<>>]

AddressedToOther(matches) ==
    [should_respond |-> FALSE, reason |-> "Message addressed to other agent(s)", cites |-> matches]

\* the quick check of shouldRespond: the decision it returns without a remote
\* call, NoDecision when it goes on to the Completion Provider
LocalGate(name, content) ==
    LET matches == OtherAgentMatches(content)
        mentionedAgents == MentionedAgents(matches)
        myNameLower == ToLowerCase(name)
    IN  IF /\ Len(matches) > 0
           /\ Len(mentionedAgents) > 0
           /\ ~(\E i \in 1..Len(mentionedAgents) : mentionedAgents[i] = myNameLower)
        THEN AddressedToOther(matches)
        ELSE NoDecision

(***************************************************************************)
(* Inputs of the gate                                                      *)
(***************************************************************************)

StrBot2   == <<"B", "o", "t", "2">>
StrXBot   == <<"X", "B", "o", "t">>
StrYBot   == <<"Y", "B", "o", "t">>
StrAl     == <<"A", "l">>
StrAlice  == <<"A", "l", "i", "c", "e">>

\* names an agent process may be started with (AGENT_NAME is any argv word)
AgentNames == {StrBot1, StrBot2, StrXBot, StrYBot, StrAl}

\* the words chat contents are made of
Vocabulary == {
    <<"h", "i">>,
    <<"@", "B", "o", "t", "2">>,
    <<"B", "o", "t", "1">>,
    <<"@", "b", "o", "t", "1">>,
    <<"X", "B", "o", "t">>,
    <<"@", "x", "b", "o", "t">>,
    <<"y", "b", "o", "t", "!">>,
    <<"b", "o", "t">>,
    <<"@", "A", "l">>
}

\* bound of SpecGate: a content has 1..MaxWords words, joined by spaces
MaxWords == 3

WordSeqs == UNION { [1..n -> Vocabulary] : n \in 1..MaxWords }

\* does content hold name as a word of its own (a maximal run of \w characters),
\* in any letter case; a leading @ is not part of the word
ContainsNameToken(content, name) ==
    \E i \in 1..Len(content) :
        /\ WordAt(content, i)
        /\ ~WordAt(content, i - 1)
        /\ ToLowerCase(SubSeq(content, i, i + WordRun(content, i) - 1)) = ToLowerCase(name)

NamesOtherAgent(content, me) ==
    \E other \in AgentNames \ {me} : ContainsNameToken(content, other)

(***************************************************************************)
(* ChatAgent: one Decision Engine invocation                               *)
(*   socket.on("message") -> processMessage -> shouldRespond ->            *)
(*   decideAction (-> analyzePsychology | search -> decideAction)* ->      *)
(*   generateResponse                                                      *)
(* Every await of a remote call is a suspension point: an action below is  *)
(* the code that runs from one resumption to the next suspension.          *)
(***************************************************************************)

\* bound: tool-selection calls one invocation may make in the model (the
\* recursion of decideAction is cut there)
MaxSelections == 4

StrHiBot2 == <<"h", "i", " ", "@", "B", "o", "t", "2">>

LogEntry(type, detail) == [type |-> type, detail |-> detail]

\* an entry put in front of the array
PushFront(log, entry) == <<entry>> \o log

\* decisionLog.push(entry)
Push(log, entry) == Append(log, entry)

Finish(outcome) ==
    /\ aPc' = "done"
    /\ aOutcome' = outcome

\* socket.on("message") and the synchronous head of processMessage
ReceiveMessage ==
    /\ aPc = "idle"
    /\ IF msg.type = "chat" /\ msg.username # agentName
       THEN /\ lastMessageTime' = now
            /\ IF sessionId = None
               THEN Finish("ignored")
               ELSE aPc' = "getSession" /\ UNCHANGED aOutcome
       ELSE Finish("ignored") /\ UNCHANGED lastMessageTime
    /\ roomChatTime' = IF msg.type = "chat" THEN now ELSE roomChatTime
    /\ UNCHANGED <<agentName, sessionId, msg, gateDecision, tracker, decisionLog,
                   calls, toolRuns, emitted, histVars, retryVars, srvVars, apiVars, busVars, restVars,
                   now, timers, autonomousMode, socketUp, connects, sessionEvents, evals,
                   evalStarts, proactiveEmits>>

\* await this.getSession() of processMessage settles; a rejection leaves
\* processMessage (nothing catches it there)
SessionSettles ==
    /\ aPc = "getSession"
    /\ \E ok \in BOOLEAN :
        IF ok THEN aPc' = "getContext" /\ UNCHANGED aOutcome
        ELSE Finish("crashed")
    /\ UNCHANGED <<agentName, sessionId, msg, gateDecision, tracker, decisionLog,
                   calls, toolRuns, emitted, histVars, retryVars, srvVars, extVars>>

\* session.getContext rejects: processMessage is left
ContextFails ==
    /\ aPc = "getContext"
    /\ Finish("crashed")
    /\ UNCHANGED <<agentName, sessionId, msg, gateDecision, tracker, decisionLog,
                   calls, toolRuns, emitted, histVars, retryVars, srvVars, extVars>>

\* session.getContext resolves: shouldRespond runs its local check and either
\* returns (processMessage logs the decision and returns) or calls OpenRouter
ContextResolves ==
    /\ aPc = "getContext"
    /\ LET d == LocalGate(agentName, msg.content)
       IN  IF d # NoDecision
           THEN /\ gateDecision' = d
                /\ decisionLog' = Push(decisionLog, LogEntry("should_respond", d.reason))
                /\ Finish("suppressed")
                /\ UNCHANGED calls
           ELSE /\ calls' = [calls EXCEPT !.gate = @ + 1]
                /\ aPc' = "gateLLM"
                /\ UNCHANGED <<gateDecision, decisionLog, aOutcome>>
    /\ UNCHANGED <<agentName, sessionId, msg, tracker, toolRuns, emitted,
                   histVars, retryVars, srvVars, extVars>>

\* what the gate's OpenRouter call may give: a rejection, text JSON.parse throws
\* on, the JSON text null, or a parsed decision
GateAnswers == {"throws", "unparsable", "null", "yes", "no"}

\* the decision shouldRespond would return if its catch answered should_respond: true
ParsedGateRespondOnError(answer) ==
    IF answer \in {"throws", "unparsable"} THEN [ErrorDecision EXCEPT !.should_respond = TRUE]
    ELSE [should_respond |-> (answer = "yes"), reason |-> "llm", cites |-> <<>>]

\* what shouldRespond returns: the decision of its catch, or the parsed decision
ParsedGate(answer) ==
    IF answer \in {"throws", "unparsable"} THEN ErrorDecision
    ELSE [should_respond |-> (answer = "yes"), reason |-> "llm", cites |-> <<>>]

\* the gate's OpenRouter call settles: shouldRespond returns, processMessage
\* logs the decision and either returns or enters decideAction, whose first
\* statement is the tool-selection call. A decision that is null is logged and
\* then read (decision.should_respond): that TypeError leaves processMessage.
GateSettles ==
    /\ aPc = "gateLLM"
    /\ \E answer \in GateAnswers :
        IF answer = "null"
        THEN /\ decisionLog' = Push(decisionLog, LogEntry("should_respond", "null"))
             /\ Finish("crashed")
             /\ UNCHANGED <<gateDecision, calls>>
        ELSE LET d == ParsedGate(answer)
             IN  /\ gateDecision' = d
                 /\ decisionLog' = Push(decisionLog, LogEntry("should_respond", d.reason))
                 /\ IF ~d.should_respond
                    THEN Finish("suppressed") /\ UNCHANGED calls
                    ELSE /\ calls' = [calls EXCEPT !.select = @ + 1]
                         /\ aPc' = "select"
                         /\ UNCHANGED aOutcome
    /\ UNCHANGED <<agentName, sessionId, msg, tracker, toolRuns, emitted,
                   histVars, retryVars, srvVars, extVars>>

UseToolAlways(choice, tr) == choice \in {"psychology", "search"}

\* decision.decision === <tool> && tracker[<tool>] === undefined
UseTool(choice, tr) ==
    \/ choice = "psychology" /\ tr.psychology = "undefined"
    \/ choice = "search" /\ tr.search = "undefined"

\* the tool-selection call rejects or gives text JSON.parse throws on: the
\* catch of decideAction returns
SelectFails ==
    /\ aPc = "select"
    /\ Finish("abandoned")
    /\ UNCHANGED <<agentName, sessionId, msg, gateDecision, tracker, decisionLog,
                   calls, toolRuns, emitted, histVars, retryVars, srvVars, extVars>>

\* the tool-selection call gives a decision: it is logged, then a tool that
\* is chosen and not yet in the tracker starts (its first statement is its own
\* OpenRouter call), anything else starts generateResponse
SelectSettles ==
    /\ aPc = "select"
    /\ \E choice \in {"psychology", "search", "respond"} :
        /\ decisionLog' = Push(decisionLog, LogEntry("action_decision", choice))
        /\ IF UseTool(choice, tracker)
           THEN /\ toolRuns' = [toolRuns EXCEPT ![choice] = @ + 1]
                /\ calls' = [calls EXCEPT !.tool = @ + 1]
                /\ aPc' = IF choice = "psychology" THEN "psyLLM" ELSE "searchLLM"
           ELSE /\ calls' = [calls EXCEPT !.synth = @ + 1]
                /\ aPc' = "synth"
                /\ UNCHANGED toolRuns
    /\ UNCHANGED <<agentName, sessionId, msg, aOutcome, gateDecision, tracker, emitted,
                   histVars, retryVars, srvVars, extVars>>

\* analyzePsychology returned value (undefined when its catch swallowed an
\* error): tracker["psychology"] = value, the result is logged, and
\* decideAction is called again (not awaited): its tool-selection call starts
PsychologyReturns(value) ==
    /\ calls.select < MaxSelections
    /\ tracker' = [tracker EXCEPT !.psychology = value]
    /\ decisionLog' = Push(decisionLog, LogEntry("psychology_result", value))
    /\ calls' = [calls EXCEPT !.select = @ + 1]
    /\ aPc' = "select"
    /\ UNCHANGED <<agentName, sessionId, msg, aOutcome, gateDecision, toolRuns, emitted,
                   histVars, retryVars, srvVars, extVars>>

\* the OpenRouter call of analyzePsychology rejects or is unparsable
PsychologyAskFails ==
    /\ aPc = "psyLLM"
    /\ PsychologyReturns("undefined")

\* the OpenRouter call of analyzePsychology gives target and question:
\* getPeer, then peer.chat is awaited
PsychologyAsks ==
    /\ aPc = "psyLLM"
    /\ aPc' = "psyChat"
    /\ UNCHANGED <<agentName, sessionId, msg, aOutcome, gateDecision, tracker, decisionLog,
                   calls, toolRuns, emitted, histVars, retryVars, srvVars, extVars>>

\* getPeer / peer.chat settles: a string, null, or a rejection (caught:
\* analyzePsychology returns undefined)
PsychologyChatSettles ==
    /\ aPc = "psyChat"
    /\ \E value \in {"text", "null", "undefined"} : PsychologyReturns(value)

\* search returned value: the messages array is built from it,
\* tracker["search"] = messages, the result is logged, decideAction is called again
SearchReturns(value) ==
    /\ calls.select < MaxSelections
    /\ tracker' = [tracker EXCEPT !.search =
                      IF value \in {"undefined", "null"} THEN "array:0"
                      ELSE IF value = "object" THEN "array:1"
                      ELSE value]
    /\ decisionLog' = Push(decisionLog, LogEntry("search_result", value))
    /\ calls' = [calls EXCEPT !.select = @ + 1]
    /\ aPc' = "select"
    /\ UNCHANGED <<agentName, sessionId, msg, aOutcome, gateDecision, toolRuns, emitted,
                   histVars, retryVars, srvVars, extVars>>

\* the OpenRouter call of search rejects or is unparsable
SearchAskFails ==
    /\ aPc = "searchLLM"
    /\ SearchReturns("undefined")

\* the OpenRouter call of search gives a query: session.search is awaited
SearchAsks ==
    /\ aPc = "searchLLM"
    /\ aPc' = "searchCall"
    /\ UNCHANGED <<agentName, sessionId, msg, aOutcome, gateDecision, tracker, decisionLog,
                   calls, toolRuns, emitted, histVars, retryVars, srvVars, extVars>>

\* session.search settles: an array, another object, null, or a rejection
SearchCallSettles ==
    /\ aPc = "searchCall"
    /\ \E value \in {"array:0", "array:2", "object", "null", "undefined"} : SearchReturns(value)

\* what the OpenRouter call of generateResponse may give: a rejection, or the
\* content of the first choice ("" when the response has none)
Completions ==
    { [ok |-> FALSE, text |-> <<>>],
      [ok |-> TRUE, text |-> <<>>],
      [ok |-> TRUE, text |-> <<" ", "\n">>],
      [ok |-> TRUE, text |-> <<"o", "k">>],
      [ok |-> TRUE, text |-> <<" ", "o", " ", "k", "\n">>] }

\* !responseContent || !responseContent.trim()
IsEmptyCompletion(c) == Len(c.text) = 0 \/ Len(Trim(c.text)) = 0

\* the OpenRouter call of generateResponse rejects (caught) or gives a
\* completion that is empty after trim: nothing is emitted
SynthesisEmpty ==
    /\ aPc = "synth"
    /\ \E c \in Completions : ~c.ok \/ IsEmptyCompletion(c)
    /\ Finish("suppressed")
    /\ UNCHANGED <<agentName, sessionId, msg, gateDecision, tracker, decisionLog,
                   calls, toolRuns, emitted, histVars, retryVars, srvVars, extVars>>

\* the completion is not empty: it is logged, the chat event is emitted with
\* the trimmed completion and the decision log, and saving the message to the
\* Context Provider is awaited (completion and persisted are ghost fields)
SynthesisSettles ==
    /\ aPc = "synth"
    /\ \E c \in Completions :
        /\ c.ok /\ ~IsEmptyCompletion(c)
        /\ decisionLog' = Push(decisionLog, LogEntry("response_generated", "preview"))
        /\ emitted' = Append(emitted, [content |-> Trim(c.text), agentDecisions |-> decisionLog',
                                       completion |-> c, persisted |-> "pending"])
    /\ aPc' = "persist"
    /\ aOutcome' = "emitted"
    /\ UNCHANGED <<agentName, sessionId, msg, gateDecision, tracker, calls, toolRuns,
                   histVars, retryVars, srvVars, extVars>>

\* getSession / getPeer / session.addMessages settle: the reply is saved, or
\* a rejection is caught
PersistSettles ==
    /\ aPc = "persist"
    /\ aPc' = "done"
    /\ \E ok \in BOOLEAN :
        emitted' = [emitted EXCEPT ![Len(emitted)].persisted = IF ok THEN "saved" ELSE "failed"]
    /\ UNCHANGED <<agentName, sessionId, msg, aOutcome, gateDecision, tracker, decisionLog,
                   calls, toolRuns, histVars, retryVars, srvVars, extVars>>

GateNext ==
    \/ ReceiveMessage
    \/ SessionSettles
    \/ ContextFails
    \/ ContextResolves
    \/ GateSettles

AgentNext ==
    \/ GateNext
    \/ SelectFails
    \/ SelectSettles
    \/ PsychologyAskFails
    \/ PsychologyAsks
    \/ PsychologyChatSettles
    \/ SearchAskFails
    \/ SearchAsks
    \/ SearchCallSettles
    \/ SynthesisEmpty
    \/ SynthesisSettles
    \/ PersistSettles

AgentStart ==
    /\ aPc = "idle"
    /\ aOutcome = None
    /\ gateDecision = NoDecision
    /\ tracker = NoTools
    /\ decisionLog = <<>>
    /\ calls = NoCalls
    /\ toolRuns = NoRuns
    /\ emitted = <<>>

\* SpecGate: the gate on every content of at most MaxWords words
GInit ==
    /\ HistIdle
    /\ RetryIdle
    /\ ServerIdle
    /\ ExtIdle
    /\ AgentStart
    /\ agentName \in {StrBot1, StrXBot, StrAl}
    /\ sessionId = "s1"
    /\ \E ws \in WordSeqs : msg = [type |-> "chat", username |-> StrAlice, content |-> JoinWords(ws)]

SpecGate == GInit /\ [][GateNext]_vars

\* SpecAgent: whole invocations on a few messages
AgentContents == { StrHiBot2, <<"h", "i">>, <<"@", "x", "b", "o", "t", " ", "h", "i">> }

AInit ==
    /\ HistIdle
    /\ RetryIdle
    /\ ServerIdle
    /\ ExtIdle
    /\ AgentStart
    /\ agentName \in {StrBot1, StrXBot}
    /\ sessionId \in {None, "s1"}
    /\ \E t \in {"chat", "join"}, u \in {StrAlice, StrBot1}, c \in AgentContents :
           msg = [type |-> t, username |-> u, content |-> c]

SpecAgent == AInit /\ [][AgentNext]_vars

GateHasRun ==
    /\ aPc \in {"gateLLM", "select", "psyLLM", "psyChat", "searchLLM", "searchCall",
                "synth", "persist", "done"}
    /\ aOutcome \notin {"ignored", "crashed"}

\* C3: within one Decision Engine invocation each of the tools psychology and
\* search is executed at most once, whatever the tool-selection answers and
\* whatever the tool executions give (a result, null, or a failure).
C3_EachToolAtMostOnce ==
    /\ toolRuns.psychology <= 1
    /\ toolRuns.search <= 1

\* C4: an invocation makes at most 3 Completion Provider calls, the gate plus at
\* most 2 tool-selections, before it reaches Synthesizing or Suppressed. The
\* count is taken most favourably: the tools' own completion calls are left out,
\* and so are the invocations in which a tool ran twice (see C3).
C4_AtMostThreeDecisionCalls ==
    (toolRuns.psychology <= 1 /\ toolRuns.search <= 1) => calls.gate + calls.select <= 3

\* C7: a Chat message whose content holds another agent's name token and not
\* the receiving agent's own name token is answered by the gate with
\* should_respond = false, reason "addressed to other agent", and without any
\* Completion Provider call.
C7_OtherAgentSuppressedLocally ==
    (/\ GateHasRun
     /\ NamesOtherAgent(msg.content, agentName)
     /\ ~ContainsNameToken(msg.content, agentName)) =>
        /\ calls.gate = 0
        /\ ~gateDecision.should_respond
        /\ gateDecision.reason = "Message addressed to other agent(s)"
        /\ aOutcome = "suppressed"

\* C8: Bot1 receives Alice's chat "hi @Bot2": its engine ends Suppressed with a
\* reason citing Bot2, makes no Completion Provider call and emits no reply.
C8_HiBot2SuppressedAtBot1 ==
    (/\ GateHasRun
     /\ agentName = StrBot1
     /\ msg = [type |-> "chat", username |-> StrAlice, content |-> StrHiBot2]) =>
        /\ calls = NoCalls
        /\ emitted = <<>>
        /\ aOutcome = "suppressed"
        /\ \E i \in 1..Len(gateDecision.cites) :
               ToLowerCase(RemoveFirstAt(gateDecision.cites[i])) = ToLowerCase(StrBot2)

(***************************************************************************)
(* Server: setupSocketIO's handlers (socket.ts)                            *)
(* A handler runs from its event (or from the resumption of an await) to   *)
(* its next await; handlers suspended on an await are the records of tasks.*)
(***************************************************************************)

\* bound: register events the server receives, all sockets together
MaxRegisterEvents == 2

\* the register handler takes any string as username
StrAliceLower == <<"a", "l", "i", "c", "e">>
StrBobBang    == <<"b", "o", "b", "!">>

Usernames == {StrAliceLower, StrBobBang}

\* data.type of a register event: "agent" registers an agent, anything else
\* (the default "human", or "user" as ChatAgent sends) a human
RegisterTypes == {"human", "agent", "user"}

MapSet(m, k, v) == [x \in (DOMAIN m) \cup {k} |-> IF x = k THEN v ELSE m[x]]
MapDelete(m, k) == [x \in (DOMAIN m) \ {k} |-> m[x]]

RegisterEvents ==
    Cardinality({ p \in Conns \X (1..MaxRegisterEvents) : p[2] <= Len(regs[p[1]]) })

\* createMessage for the join message of a register handler
\* (conn is a ghost: the socket whose handler created the message)
JoinMessage(id, c, username, type) ==
    [id |-> id, type |-> "join", username |-> "system", about |-> username, userType |-> type,
     conn |-> c]

\* createMessage for the leave message of the disconnect handler
LeaveMessage(id, user) ==
    [id |-> id, type |-> "leave", username |-> "system", about |-> user.username,
     userType |-> user.type, conn |-> user.id]

\* socket.broadcast.emit("message", m): every connected socket but the sender
BroadcastFrom(c, m) ==
    [d \in Conns |-> IF d # c /\ connStatus[d] = "open" THEN Append(outbox[d], m.id)
                     ELSE outbox[d]]

\* get_users: the ack lists every entry of connectedUsers and of agents
GetUsers ==
    [users  |-> { [id |-> c, username |-> connectedUsers[c].username, type |-> connectedUsers[c].type]
                    : c \in DOMAIN connectedUsers },
     agents |-> { [id |-> c, username |-> agents[c].username, type |-> agents[c].type]
                    : c \in DOMAIN agents }]

Listed == GetUsers.users \cup GetUsers.agents

SInit ==
    /\ HistIdle
    /\ RetryIdle
    /\ AgentIdle
    /\ ServerIdle
    /\ ExtIdle

\* io.on("connection"): a socket connects and its handlers are installed
Connect(c) ==
    /\ connStatus[c] = "none"
    /\ connStatus' = [connStatus EXCEPT ![c] = "open"]
    /\ UNCHANGED <<connectedUsers, agents, tasks, regs, regDone, outbox, nextMsgId,
                   histVars, retryVars, agentVars, extVars>>

\* the tail of the register handler: history and session_id to the socket, the
\* join message to the others, addToHistory
AnnounceJoin(c, username, type) ==
    LET m == JoinMessage(nextMsgId + 1, c, username, type)
    IN  /\ nextMsgId' = nextMsgId + 1
        /\ outbox' = BroadcastFrom(c, m)
        /\ chatHistory' = AddToHistory(chatHistory, m)
        /\ appendLog' = Append(appendLog, m)

\* register with type "agent": agents.set, then honcho.peer is awaited
RegisterAgent(c) ==
    /\ connStatus[c] = "open"
    /\ RegisterEvents < MaxRegisterEvents
    /\ \E u \in Usernames :
        LET r == [no |-> Len(regs[c]) + 1, username |-> u, type |-> "agent"]
        IN  /\ regs' = [regs EXCEPT ![c] = Append(@, r)]
            /\ agents' = MapSet(agents, c, [id |-> c, username |-> u, type |-> "agent"])
            /\ tasks' = tasks \cup {[conn |-> c, no |-> r.no, username |-> u, type |-> "agent",
                                     pc |-> "peer", observe_me |-> TRUE]}
    /\ UNCHANGED <<connStatus, connectedUsers, regDone, outbox, nextMsgId,
                   histVars, retryVars, agentVars, extVars>>

\* register with another type: honcho.peer is awaited before anything is stored
RegisterHuman(c) ==
    /\ connStatus[c] = "open"
    /\ RegisterEvents < MaxRegisterEvents
    /\ \E u \in Usernames, t \in RegisterTypes \ {"agent"} :
        LET r == [no |-> Len(regs[c]) + 1, username |-> u, type |-> t]
        IN  /\ regs' = [regs EXCEPT ![c] = Append(@, r)]
            /\ tasks' = tasks \cup {[conn |-> c, no |-> r.no, username |-> u, type |-> t,
                                     pc |-> "peer", observe_me |-> TRUE]}
    /\ UNCHANGED <<connStatus, connectedUsers, agents, regDone, outbox, nextMsgId,
                   histVars, retryVars, agentVars, extVars>>

\* an awaited Context Provider call of a register handler rejects: the handler ends
RegisterAwaitRejects(t) ==
    /\ t \in tasks
    /\ tasks' = tasks \ {t}
    /\ UNCHANGED <<connStatus, connectedUsers, agents, regs, regDone, outbox, nextMsgId,
                   histVars, retryVars, agentVars, extVars>>

\* honcho.peer resolved: an agent handler awaits session.addPeers, a human
\* handler awaits user_peer.getPeerConfig
RegisterPeerResolves(t) ==
    /\ t \in tasks
    /\ t.pc = "peer"
    /\ tasks' = (tasks \ {t}) \cup
                {[t EXCEPT !.pc = IF t.type = "agent" THEN "addPeers" ELSE "config"]}
    /\ UNCHANGED <<connStatus, connectedUsers, agents, regs, regDone, outbox, nextMsgId,
                   histVars, retryVars, agentVars, extVars>>

\* getPeerConfig resolved: the user record is built with the stored observe_me
\* (true when the config has none), session.addPeers is awaited
RegisterConfigResolves(t) ==
    /\ t \in tasks
    /\ t.pc = "config"
    /\ \E o \in BOOLEAN :
        tasks' = (tasks \ {t}) \cup {[t EXCEPT !.pc = "addPeers", !.observe_me = o]}
    /\ UNCHANGED <<connStatus, connectedUsers, agents, regs, regDone, outbox, nextMsgId,
                   histVars, retryVars, agentVars, extVars>>

\* session.addPeers resolved in an agent handler: the join is announced
RegisterAgentCompletes(t) ==
    /\ t \in tasks
    /\ t.pc = "addPeers"
    /\ t.type = "agent"
    /\ tasks' = tasks \ {t}
    /\ regDone' = [regDone EXCEPT ![t.conn] = @ + 1]
    /\ AnnounceJoin(t.conn, t.username, t.type)
    /\ UNCHANGED <<connStatus, connectedUsers, agents, regs, loaded, srvPhase,
                   retryVars, agentVars, extVars>>

\* session.addPeers resolved in a human handler: connectedUsers.set, then the
\* join is announced
RegisterHumanCompletes(t) ==
    /\ t \in tasks
    /\ t.pc = "addPeers"
    /\ t.type # "agent"
    /\ tasks' = tasks \ {t}
    /\ connectedUsers' = MapSet(connectedUsers, t.conn,
                                [id |-> t.conn, username |-> t.username, type |-> "human",
                                 observe_me |-> t.observe_me])
    /\ regDone' = [regDone EXCEPT ![t.conn] = @ + 1]
    /\ AnnounceJoin(t.conn, t.username, t.type)
    /\ UNCHANGED <<connStatus, agents, regs, loaded, srvPhase, retryVars, agentVars, extVars>>

\* disconnect: when the socket id is in the registry the leave message is
\* broadcast and added to the history and the id is deleted from both maps
\* (the awaits that follow change no server state)
Disconnect(c) ==
    /\ connStatus[c] = "open"
    /\ connStatus' = [connStatus EXCEPT ![c] = "closed"]
    /\ IF c \in DOMAIN connectedUsers \/ c \in DOMAIN agents
       THEN LET user == IF c \in DOMAIN connectedUsers THEN connectedUsers[c] ELSE agents[c]
                m == LeaveMessage(nextMsgId + 1, user)
            IN  /\ nextMsgId' = nextMsgId + 1
                /\ outbox' = BroadcastFrom(c, m)
                /\ chatHistory' = AddToHistory(chatHistory, m)
                /\ appendLog' = Append(appendLog, m)
                /\ connectedUsers' = MapDelete(connectedUsers, c)
                /\ agents' = MapDelete(agents, c)
       ELSE UNCHANGED <<nextMsgId, outbox, chatHistory, appendLog, connectedUsers, agents>>
    /\ UNCHANGED <<tasks, regs, regDone, loaded, srvPhase, retryVars, agentVars, extVars>>

Next ==
    \/ \E c \in Conns : Connect(c)
    \/ \E c \in Conns : RegisterAgent(c)
    \/ \E c \in Conns : RegisterHuman(c)
    \/ \E t \in tasks : RegisterAwaitRejects(t)
    \/ \E t \in tasks : RegisterPeerResolves(t)
    \/ \E t \in tasks : RegisterConfigResolves(t)
    \/ \E t \in tasks : RegisterAgentCompletes(t)
    \/ \E t \in tasks : RegisterHumanCompletes(t)
    \/ \E c \in Conns : Disconnect(c)

Spec == SInit /\ [][Next]_vars

\* C9: once the server has processed the disconnect of a connection, the
\* registry (what get_users lists) never again holds a participant with that
\* connection id, in every interleaving with that connection's register handlers.
C9_DisconnectedNeverListed ==
    \A c \in Conns :
        connStatus[c] = "closed" => ~(\E p \in Listed : p.id = c)

\* c sent register events and every handler of them ran to its end
RegistrationsSettled(c) ==
    /\ Len(regs[c]) > 0
    /\ regDone[c] = Len(regs[c])

LastRegistration(c) == regs[c][Len(regs[c])]

\* C10: after any sequence of register events on one connection id, of any mix
\* of types, the registry (humans and agents together) holds exactly one
\* participant for that id, the one of the last registration.
C10_ReRegisterOverwrites ==
    \A c \in Conns :
        (connStatus[c] = "open" /\ RegistrationsSettled(c)) =>
            LET mine == { p \in Listed : p.id = c }
            IN  /\ Cardinality(mine) = 1
                /\ \A p \in mine :
                       /\ p.username = LastRegistration(c).username
                       /\ p.type = (IF LastRegistration(c).type = "agent" THEN "agent" ELSE "human")

\* C11: at all times no two live participants (humans and agents together,
\* on different connections) have the same displayName: a register whose
\* username a live participant already holds does not give a second live
\* participant with that name.
C11_UniqueDisplayNames ==
    \A p, q \in Listed : p.id # q.id => p.username # q.username

(***************************************************************************)
(* POST /api/validate-username (createAPIRoutes)                           *)
(***************************************************************************)

\* the longest username isValidUsername accepts and sanitizeUsername keeps
MaxUsernameLength == 50

\* the class [a-zA-Z0-9_-]
IsUsernameChar(c) == IsUpper(c) \/ IsLower(c) \/ c \in DigitChars \/ c = "_" \/ c = "-"

\* replace(/\s+/g, '_'): every maximal run of white space becomes one underscore
RECURSIVE ReplaceSpaceRuns(_)
ReplaceSpaceRuns(s) ==
    IF Len(s) = 0 THEN <<>>
    ELSE IF IsSpace(s[1])
         THEN IF Len(s) > 1 /\ IsSpace(s[2])
              THEN ReplaceSpaceRuns(Tail(s))
              ELSE <<"_">> \o ReplaceSpaceRuns(Tail(s))
         ELSE <<s[1]>> \o ReplaceSpaceRuns(Tail(s))

\* replace(/[^a-zA-Z0-9_-]/g, '')
StripInvalidChars(s) == SelectSeq(s, IsUsernameChar)

\* substring(0, 50)
Substring0(s, n) == SubSeq(s, 1, Min(Len(s), n))

sanitizeUsername(username) ==
    Substring0(StripInvalidChars(ReplaceSpaceRuns(username)), MaxUsernameLength)

isValidUsername(username) ==
    /\ Len(username) > 0
    /\ \A i \in 1..Len(username) : IsUsernameChar(username[i])
    /\ Len(username) <= MaxUsernameLength

\* Array.from(connectedUsers.values()).find(...) || Array.from(agents.values()).find(...)
NameTaken(name) == \E p \in Listed : p.username = name

\* the usernames validation is asked for: the names of the registry, names
\* with characters outside the class, the empty string, a name of 51 characters
StrLong == [i \in 1..(MaxUsernameLength + 1) |-> "a"]

ValidateInputs ==
    Usernames \cup { <<"a", "l", "i", "c", "e", "!">>, <<"a", "l", " ", " ", "i", "c", "e">>,
                     <<>>, StrLong }

Response(username, status, valid, error, suggested, suggestion) ==
    [username |-> username, status |-> status, valid |-> valid, error |-> error,
     suggested |-> suggested, suggestion |-> suggestion, held |-> NameTaken(username)]

\* bound: validation requests in one behaviour
MaxValidations == 1

\* the request body is not JSON: 400 "Invalid request format"
ValidateMalformed ==
    /\ Len(validation) < MaxValidations
    /\ validation' = Append(validation,
                             [Response(<<>>, 400, FALSE, "Invalid request format", FALSE, <<>>)
                                EXCEPT !.held = FALSE])
    /\ UNCHANGED <<histAck, histVars, retryVars, agentVars, srvVars, schedVars, busVars, restVars>>

\* the handler on a parsed body; the answer of honcho.getPeers only changes
\* the peerExists and message fields of a valid: true response
ValidateUsername(username) ==
    /\ Len(validation) < MaxValidations
    /\ validation' = Append(validation,
          IF Len(username) = 0
          THEN [Response(username, 400, FALSE, "Username is required", FALSE, <<>>)
                  EXCEPT !.held = FALSE]
          ELSE IF ~isValidUsername(username)
          THEN LET sanitized == sanitizeUsername(username)
               IN  IF NameTaken(sanitized)
                   THEN Response(username, 200, FALSE,
                                 "Username contains invalid characters and suggested alternative is taken",
                                 FALSE, <<>>)
                   ELSE Response(username, 200, FALSE,
                                 "Username can only contain letters, numbers, underscores, and hyphens",
                                 TRUE, sanitized)
          ELSE IF NameTaken(username)
          THEN Response(username, 200, FALSE, "Username is already taken", FALSE, <<>>)
          ELSE Response(username, 200, TRUE, "none", FALSE, <<>>))
    /\ UNCHANGED <<histAck, histVars, retryVars, agentVars, srvVars, schedVars, busVars, restVars>>

VNext ==
    \/ Next
    \/ ValidateMalformed
    \/ \E u \in ValidateInputs : ValidateUsername(u)

SpecValidate == SInit /\ [][VNext]_vars

\* C12: when username validation is requested for a name that a live
\* participant (human or agent) already holds, the result is a rejection
\* (valid = false) that carries a suggested alternative name.
C12_TakenNameRejectedWithSuggestion ==
    \A i \in 1..Len(validation) :
        validation[i].held => (validation[i].valid = FALSE /\ validation[i].suggested)

(***************************************************************************)
(* socket.on("get_history")                                                *)
(* The handler is a function of chatHistory and of the request: the        *)
(* specification starts from the histories below and answers requests.     *)
(***************************************************************************)

MessageTypes == {"chat", "agent_data", "system", "join", "leave", "agent_response"}

\* data.limit || 100
DefaultHistoryLimit == 100

\* bound: the messages of a start history after its run of Chat messages
MaxTail == 3

\* a start history is a run of Chat messages followed by at most MaxTail
\* messages of any kind; message i was created i milliseconds after start
ChatRuns == {0, 20}
TailTypes == {"chat", "join", "leave", "system", "agent_response"}

HistoryOf(types) == [i \in 1..Len(types) |-> [id |-> i, type |-> types[i], timestamp |-> i]]

HistoryInputs ==
    { HistoryOf([i \in 1..n |-> "chat"] \o tail) :
        n \in ChatRuns, tail \in UNION { [1..k -> TailTypes] : k \in 0..MaxTail } }

\* the requests: limit (0 stands for an absent or zero limit), messageType
\* (None when absent), since (0 when absent)
LimitInputs == {0, 1, 5, 0 - 1, 200}
MessageTypeInputs == {None, "chat", "agent_response", "join"}
SinceInputs == {0, 1, 21}

\* the first filter of the handler, with Leave let through
IsListedTypeKeepsLeave(type) == type # "join" /\ type # "system"

\* msg.type !== JOIN && msg.type !== LEAVE && msg.type !== SYSTEM
IsListedType(type) == type # "join" /\ type # "leave" /\ type # "system"

KeepListed(m) == IsListedType(m.type)

\* Array.prototype.slice(start): from index start (counted from the end when
\* negative) to the end of the array
JsSlice(arr, start) ==
    LET from == IF start < 0 THEN Max(Len(arr) + start, 0) ELSE Min(start, Len(arr))
    IN  SubSeq(arr, from + 1, Len(arr))

getHistory(history, limit, messageType, since) ==
    LET lim == IF limit = 0 THEN DefaultHistoryLimit ELSE limit
        f1 == SelectSeq(history, KeepListed)
        f2 == IF messageType # None
              THEN SelectSeq(f1, LAMBDA m : m.type = messageType) ELSE f1
        f3 == IF since # 0
              THEN SelectSeq(f2, LAMBDA m : m.timestamp > since) ELSE f2
    IN  [history |-> JsSlice(f3, 0 - lim), total |-> Len(f3)]

QInit ==
    /\ RetryIdle
    /\ AgentIdle
    /\ ServerIdle
    /\ ExtIdle
    /\ appendLog = <<>>
    /\ loaded = 0
    /\ srvPhase = "serving"
    /\ chatHistory \in HistoryInputs

GetHistory(limit, messageType, since) ==
    /\ ~histAck.asked
    /\ LET ack == getHistory(chatHistory, limit, messageType, since)
       IN  histAck' = [limit |-> limit, messageType |-> messageType, since |-> since,
                       history |-> ack.history, total |-> ack.total, asked |-> TRUE]
    /\ UNCHANGED <<validation, histVars, retryVars, agentVars, srvVars, schedVars, busVars, restVars>>

QNext == \E l \in LimitInputs, t \in MessageTypeInputs, s \in SinceInputs : GetHistory(l, t, s)

SpecGetHistory == QInit /\ [][QNext]_vars

\* positions of the history whose kind is not System, Join or Leave
ContentPositions(h) == { i \in 1..Len(h) : h[i].type \notin {"system", "join", "leave"} }

\* the n-th such position, counted from the oldest
NthContentPosition(h, n) ==
    CHOOSE i \in ContentPositions(h) : Cardinality({ j \in ContentPositions(h) : j <= i }) = n

\* C13: for a positive limit L and no messageType or since filter, get_history
\* acks with exactly the last min(L, k) messages of the history whose kind is
\* not System, Join or Leave (k the number of such messages), in history order
\* with the most recent last, and with total = k.
C13_GetHistoryLastVisible ==
    (histAck.asked /\ histAck.limit > 0 /\ histAck.messageType = None /\ histAck.since = 0) =>
        LET k == Cardinality(ContentPositions(chatHistory))
            n == Min(histAck.limit, k)
        IN  /\ histAck.total = k
            /\ Len(histAck.history) = n
            /\ \A j \in 1..n :
                   histAck.history[j] = chatHistory[NthContentPosition(chatHistory, k - n + j)]

\* C39: for every integer limit a client supplies, 0 and negative values
\* included, the slice get_history returns holds at most max(limit, 0)
\* messages.
C39_SliceAtMostLimit ==
    histAck.asked => Len(histAck.history) <= Max(histAck.limit, 0)

\* limit 5 after 20 Chat and 3 Join/Leave messages: the 5 most recent Chat messages
C13_Witness ==
    /\ histAck.asked /\ histAck.limit = 5 /\ histAck.messageType = None /\ histAck.since = 0
    /\ Len(chatHistory) = 23
    /\ Cardinality({ i \in 1..23 : chatHistory[i].type = "chat" }) = 20
    /\ Cardinality({ i \in 1..23 : chatHistory[i].type \in {"join", "leave"} }) = 3
    /\ \E i \in 21..23 : chatHistory[i].type = "leave"
    /\ histAck.history = SubSeq(chatHistory, 16, 20)
    /\ histAck.total = 20

(***************************************************************************)
(* Claims on the end of a Decision Engine invocation (SpecAgent)           *)
(***************************************************************************)

PastTheGate ==
    calls.select > 0 \/ calls.tool > 0 \/ calls.synth > 0 \/ toolRuns.psychology > 0
        \/ toolRuns.search > 0 \/ Len(emitted) > 0

\* the gate's Completion Provider call was made and did not give should_respond: true
GateRefused ==
    /\ calls.gate = 1
    /\ aPc # "gateLLM"
    /\ ~(gateDecision.should_respond /\ gateDecision.reason = "llm")

ToolFailed ==
    \E i \in 1..Len(decisionLog) :
        /\ decisionLog[i].type \in {"psychology_result", "search_result"}
        /\ decisionLog[i].detail = "undefined"

\* C15: if a tool-selection call fails or a tool execution fails, the
\* invocation is abandoned: no further tool-selection call is made and no
\* reply is emitted for that message.
C15_ToolErrorAbandons ==
    /\ aOutcome = "abandoned" => (aPc = "done" /\ emitted = <<>>)
    /\ ToolFailed => (aPc = "done" /\ aOutcome = "abandoned" /\ emitted = <<>>)

\* the synthesis call of the invocation was made and has settled
SynthesisSettled == calls.synth > 0 /\ aPc # "synth"

\* C16: a reply chat event is emitted for an invocation only if the synthesis
\* completion succeeded and is non-empty after trimming; on an empty or failed
\* completion the invocation ends with nothing emitted to the chat and nothing
\* persisted to the Context Provider.
C16_ReplyOnlyOnNonEmptyCompletion ==
    /\ Len(emitted) <= 1
    /\ \A i \in 1..Len(emitted) :
          LET e == emitted[i]
          IN  /\ SynthesisSettled
              /\ e.completion.ok
              /\ \E k \in 1..Len(e.completion.text) : ~IsSpace(e.completion.text[k])
              /\ Len(e.content) > 0
              /\ ~IsSpace(e.content[1]) /\ ~IsSpace(e.content[Len(e.content)])
    /\ (SynthesisSettled /\ aOutcome = "suppressed") => (emitted = <<>> /\ aPc = "done")
    /\ (SynthesisSettled /\ emitted = <<>>) => aOutcome = "suppressed"

\* a completion with white space around it was emitted trimmed and saved
C16_Witness ==
    /\ Len(emitted) = 1
    /\ emitted[1].completion.text = <<" ", "o", " ", "k", "\n">>
    /\ emitted[1].content = <<"o", " ", "k">>
    /\ emitted[1].persisted = "saved"
    /\ aPc = "done"

(***************************************************************************)
(* ChatAgent: connect, session_id and the proactive timer                  *)
(* Time is Date.now() in milliseconds since the agent was constructed; the *)
(* clock of the model moves in steps of a third of the interval.           *)
(***************************************************************************)

\* protected autonomousInterval: number = 30000
AutonomousInterval == 30000

TimeStep == AutonomousInterval \div 3

\* bound: clock steps of a behaviour
MaxTicks == 7

\* bound: "connect" events of the agent's socket (the first connection and
\* the reconnections of socket.io)
MaxConnects == 2

\* the "message" events of SpecProactive: a chat of another participant, a
\* chat of the agent itself, a join
HeardMessages ==
    { [type |-> "chat", username |-> StrAlice, content |-> <<"h", "i">>],
      [type |-> "chat", username |-> StrBot1, content |-> <<"h", "i">>],
      [type |-> "join", username |-> <<"s", "y", "s", "t", "e", "m">>, content |-> <<>>] }

PInit ==
    /\ HistIdle
    /\ RetryIdle
    /\ AgentIdle
    /\ ServerIdle
    /\ ApiIdle
    /\ BusIdle
    /\ RestIdle
    /\ now = 0
    /\ lastMessageTime = 0
    /\ timers = <<>>
    /\ autonomousMode \in BOOLEAN
    /\ socketUp = FALSE
    /\ connects = 0
    /\ sessionEvents = 0
    /\ evals = {}
    /\ evalStarts = <<>>
    /\ proactiveEmits = <<>>
    /\ roomChatTime = 0

\* socket.on("connect"): register is emitted; the server's register handler
\* answers with a session_id event unless one of its awaits rejected
SocketConnects ==
    /\ ~socketUp
    /\ connects < MaxConnects
    /\ socketUp' = TRUE
    /\ connects' = connects + 1
    /\ \E answered \in BOOLEAN :
        sessionEvents' = IF answered THEN sessionEvents + 1 ELSE sessionEvents
    /\ UNCHANGED <<now, lastMessageTime, timers, autonomousMode, roomChatTime, evals, evalStarts,
                   proactiveEmits, histVars, retryVars, agentVars, srvVars, apiVars, busVars, restVars>>

\* socket.on("disconnect"): the reason is logged; events still on their way are
\* lost; socket.io reconnects later
SocketDisconnects ==
    /\ socketUp
    /\ socketUp' = FALSE
    /\ sessionEvents' = 0
    /\ UNCHANGED <<now, lastMessageTime, timers, autonomousMode, roomChatTime, connects, evals, evalStarts,
                   proactiveEmits, histVars, retryVars, agentVars, srvVars, apiVars, busVars, restVars>>

\* startAutonomousBehavior: setInterval(callback, autonomousInterval)
startAutonomousBehavior(ts, t) == Append(ts, t + AutonomousInterval)

\* socket.on("session_id"): the id is stored and, in autonomous mode,
\* startAutonomousBehavior is called
SessionIdArrives(sid) ==
    /\ socketUp
    /\ sessionEvents > 0
    /\ sessionEvents' = sessionEvents - 1
    /\ sessionId' = sid
    /\ timers' = IF autonomousMode THEN startAutonomousBehavior(timers, now) ELSE timers
    /\ UNCHANGED <<now, lastMessageTime, autonomousMode, roomChatTime, socketUp, connects, evals, evalStarts,
                   proactiveEmits, agentName, msg, aPc, aOutcome, gateDecision, tracker,
                   decisionLog, calls, toolRuns, emitted,
                   histVars, retryVars, srvVars, apiVars, busVars, restVars>>

\* socket.on("message"): a chat of another participant sets lastMessageTime
\* and starts processMessage (the invocation SpecAgent follows, which reads and
\* writes nothing of the timer's state)
MessageArrives ==
    /\ socketUp
    /\ \E m \in HeardMessages :
        /\ lastMessageTime' = IF m.type = "chat" /\ m.username # agentName THEN now
                              ELSE lastMessageTime
        /\ roomChatTime' = IF m.type = "chat" THEN now ELSE roomChatTime
    /\ UNCHANGED <<now, timers, autonomousMode, socketUp, connects, sessionEvents, evals,
                   evalStarts, proactiveEmits, histVars, retryVars, agentVars, srvVars,
                   apiVars, busVars, restVars>>

\* time passes; an interval that is due fires first
ClockAdvances ==
    /\ now < MaxTicks * TimeStep
    /\ \A i \in 1..Len(timers) : timers[i] > now
    /\ now' = now + TimeStep
    /\ UNCHANGED <<lastMessageTime, timers, autonomousMode, roomChatTime, socketUp, connects, sessionEvents,
                   evals, evalStarts, proactiveEmits, histVars, retryVars, agentVars, srvVars,
                   apiVars, busVars, restVars>>

\* timeSinceLastMessage > this.autonomousInterval
IsQuiet(t, last) == t - last > AutonomousInterval

\* the callback of an interval: when the chat has been quiet for longer than
\* the interval considerProactiveMessage is called, which returns without a
\* session id and otherwise awaits getSession
TimerFires(i) ==
    /\ i \in 1..Len(timers)
    /\ timers[i] <= now
    /\ timers' = [timers EXCEPT ![i] = @ + AutonomousInterval]
    /\ IF IsQuiet(now, lastMessageTime)
       THEN /\ evalStarts' = Append(evalStarts, now)
            /\ evals' = IF sessionId = None THEN evals
                        ELSE evals \cup {[id |-> Len(evalStarts) + 1, pc |-> "getSession"]}
       ELSE UNCHANGED <<evals, evalStarts>>
    /\ UNCHANGED <<now, lastMessageTime, autonomousMode, roomChatTime, socketUp, connects, sessionEvents,
                   proactiveEmits, histVars, retryVars, agentVars, srvVars, apiVars, busVars, restVars>>

\* an awaited call of considerProactiveMessage or generateProactiveMessage
\* rejects, or the decision is unparsable: the catch logs it. A rejection while
\* the utterance is being saved leaves lastMessageTime as it was.
EvalFails(e) ==
    /\ e \in evals
    /\ evals' = evals \ {e}
    /\ UNCHANGED <<now, lastMessageTime, timers, autonomousMode, roomChatTime, socketUp, connects,
                   sessionEvents, evalStarts, proactiveEmits, histVars, retryVars, agentVars,
                   srvVars, apiVars, busVars, restVars>>

\* getSession resolves, then session.getContext resolves and the decision
\* call is made
EvalProceeds(e) ==
    /\ e \in evals
    /\ e.pc \in {"getSession", "getContext"}
    /\ evals' = (evals \ {e}) \cup
                {[e EXCEPT !.pc = IF e.pc = "getSession" THEN "getContext" ELSE "decide"]}
    /\ UNCHANGED <<now, lastMessageTime, timers, autonomousMode, roomChatTime, socketUp, connects,
                   sessionEvents, evalStarts, proactiveEmits, histVars, retryVars, agentVars,
                   srvVars, apiVars, busVars, restVars>>

\* parsed.should_speak && parsed.confidence > 0.6: generateProactiveMessage
\* makes its completion call; otherwise the evaluation ends
EvalDecides(e) ==
    /\ e \in evals
    /\ e.pc = "decide"
    /\ \E speak \in BOOLEAN :
        evals' = IF speak THEN (evals \ {e}) \cup {[e EXCEPT !.pc = "generate"]}
                 ELSE evals \ {e}
    /\ UNCHANGED <<now, lastMessageTime, timers, autonomousMode, roomChatTime, socketUp, connects,
                   sessionEvents, evalStarts, proactiveEmits, histVars, retryVars, agentVars,
                   srvVars, apiVars, busVars, restVars>>

\* the completion of generateProactiveMessage: a non-empty one is emitted as a
\* chat event and its save to the Context Provider is awaited
EvalGenerates(e) ==
    /\ e \in evals
    /\ e.pc = "generate"
    /\ \E c \in Completions :
        /\ c.ok
        /\ IF IsEmptyCompletion(c)
           THEN evals' = evals \ {e} /\ UNCHANGED proactiveEmits
           ELSE /\ proactiveEmits' = Append(proactiveEmits, now)
                /\ evals' = (evals \ {e}) \cup {[e EXCEPT !.pc = "persist"]}
    /\ UNCHANGED <<now, lastMessageTime, timers, autonomousMode, roomChatTime, socketUp, connects,
                   sessionEvents, evalStarts, histVars, retryVars, agentVars,
                   srvVars, apiVars, busVars, restVars>>

\* getSession, getPeer and session.addMessages resolved: lastMessageTime = Date.now()
EvalPersisted(e) ==
    /\ e \in evals
    /\ e.pc = "persist"
    /\ evals' = evals \ {e}
    /\ lastMessageTime' = now
    /\ UNCHANGED <<now, timers, autonomousMode, roomChatTime, socketUp, connects, sessionEvents,
                   evalStarts, proactiveEmits, histVars, retryVars, agentVars,
                   srvVars, apiVars, busVars, restVars>>

PNext ==
    \/ SocketConnects
    \/ SocketDisconnects
    \/ SessionIdArrives("s1")
    \/ MessageArrives
    \/ ClockAdvances
    \/ \E i \in 1..Len(timers) : TimerFires(i)
    \/ \E e \in evals : EvalFails(e)
    \/ \E e \in evals : EvalProceeds(e)
    \/ \E e \in evals : EvalDecides(e)
    \/ \E e \in evals : EvalGenerates(e)
    \/ \E e \in evals : EvalPersisted(e)

SpecProactive == PInit /\ [][PNext]_vars

\* C17: at every moment an agent process has at most one active proactive
\* timer, after any sequence of connects, disconnects, reconnects and
\* session_id events received from the server.
C17_AtMostOneTimer == Len(timers) <= 1

\* C18: whenever a proactive utterance has been emitted to the chat, the
\* silence timer is reset, so that no tick within one interval after that
\* emission starts another proactive evaluation (stated for an agent with one
\* timer).
C18_EmissionResetsSilenceTimer ==
    Len(timers) <= 1 =>
        \A i \in 1..Len(proactiveEmits), j \in 1..Len(evalStarts) :
            ~(/\ proactiveEmits[i] < evalStarts[j]
              /\ evalStarts[j] - proactiveEmits[i] < AutonomousInterval)

(***************************************************************************)
(* Server: the chat, agent_data and agent_response handlers (socket.ts)    *)
(* SpecBus starts with sockets connected and registered (states Spec       *)
(* reaches); outbox, agentEvents and handled record what happens from      *)
(* there on.                                                               *)
(***************************************************************************)

\* bound: messages the three handlers create in a behaviour
MaxBusEvents == 3

\* the channel of a socket keeps the order of the emits
DeliverFirst(box, id) == <<id>> \o box

\* socket.emit("message", m) on one socket
Deliver(box, id) == Append(box, id)

\* io.emit("message", m): every connected socket
IoEmit(m) ==
    [d \in Conns |-> IF connStatus[d] = "open" THEN Deliver(outbox[d], m.id) ELSE outbox[d]]

\* connectedUsers.get(id) || agents.get(id)
Lookup(id) ==
    IF id \in DOMAIN connectedUsers THEN connectedUsers[id]
    ELSE IF id \in DOMAIN agents THEN agents[id]
    ELSE [id |-> None, username |-> <<>>, type |-> None]

\* agents.get(id)
AgentLookup(id) ==
    IF id \in DOMAIN agents THEN agents[id]
    ELSE [id |-> None, username |-> <<>>, type |-> None]

NeverMissing(user) == FALSE

\* if (!user) return; if (!agent) return;
Missing(user) == user.id = None

\* the event a handler was called with
Received(kind, c, user) ==
    Append(events, [kind |-> kind, from |-> c, known |-> user.id # None])

\* notifyAgents: an agent_event to every agent of the registry not excluded
NotifyAgents(m, eventType, excludeIds) ==
    [d \in Conns |->
        IF d \in DOMAIN agents /\ d \notin excludeIds /\ connStatus[d] = "open"
        THEN Append(agentEvents[d], [eventType |-> eventType, id |-> m.id])
        ELSE agentEvents[d]]

\* createMessage of a handler of socket c
BusMessage(type, username, c, hasContent) ==
    [id |-> nextMsgId + 1, type |-> type, username |-> username, from |-> c,
     hasContent |-> hasContent]

\* { ...a, ...b }: the keys of both objects, b's value where both have the key
Spread(a, b) ==
    [k \in DOMAIN a \cup DOMAIN b |-> IF k \in DOMAIN b THEN b[k] ELSE a[k]]

\* new Date() at the server: a clock that has moved on whenever a message is
\* created
ServerClock == nextMsgId + 1

\* createMessage's metadata: { timestamp: new Date().toISOString(), ...metadata }
CreateMetadata(metadata) == Spread("timestamp" :> ServerClock, metadata)

\* the metadata the chat handler passes to createMessage:
\* { userId: socket.id, userType: user.type, ...data.metadata }
ChatMetadata(c, user, dataMetadata) ==
    Spread(("userId" :> c) @@ ("userType" :> user.type), dataMetadata)

\* data.metadata of a chat event that has none
NoMetadata == <<>>

\* createMessage of the chat handler of socket c; created is a ghost, the
\* server's time when it ran
ChatMessage(c, user, hasContent, dataMetadata) ==
    [id |-> nextMsgId + 1, type |-> "chat", username |-> user.username, from |-> c,
     hasContent |-> hasContent, created |-> ServerClock,
     metadata |-> CreateMetadata(ChatMetadata(c, user, dataMetadata))]

\* the event a handler took up: the message it created, the sockets connected
\* then, data.broadcast and data.targets (of agent_data; other events go to
\* every socket), and how saving it to the Context Provider went ("none"
\* when broadcastMessage does not save it)
Handled(m, broadcast, targets) ==
    Append(handled, [id |-> m.id, type |-> m.type,
                     live |-> { d \in Conns : connStatus[d] = "open" },
                     broadcast |-> broadcast, targets |-> targets,
                     saved |-> IF m.type = "chat" /\ m.hasContent THEN "pending" ELSE "none"])

\* the saving of message m settled
Saved(m, ok) ==
    [i \in 1..Len(handled) |->
        IF handled[i].id = m.id
        THEN [handled[i] EXCEPT !.saved = IF ok THEN "saved" ELSE "failed"]
        ELSE handled[i]]

\* broadcastMessage without its try: a rejection leaves the handler
BroadcastReturnsOnSuccess(ok) == ok

\* does await broadcastMessage(...) return to the handler: the catch of
\* broadcastMessage logs a rejection and the function returns
BroadcastReturns(ok) == TRUE

\* the registries SpecBus starts from: every connected socket is a human, an
\* agent, or not registered
BusUsername(c) == IF c = ConnIds[1] THEN StrAliceLower ELSE StrBobBang

BInit ==
    /\ HistIdle
    /\ RetryIdle
    /\ AgentIdle
    /\ ApiIdle
    /\ SchedIdle
    /\ BusIdle
    /\ RestIdle
    /\ connStatus \in [Conns -> {"none", "open"}]
    /\ \E H \in SUBSET { c \in Conns : connStatus[c] = "open" } :
        \E A \in SUBSET ({ c \in Conns : connStatus[c] = "open" } \ H) :
            /\ connectedUsers = [c \in H |-> [id |-> c, username |-> BusUsername(c),
                                              type |-> "human", observe_me |-> TRUE]]
            /\ agents = [c \in A |-> [id |-> c, username |-> BusUsername(c), type |-> "agent"]]
    /\ tasks = {}
    /\ regs = [c \in Conns |-> <<>>]
    /\ regDone = [c \in Conns |-> 0]
    /\ outbox = [c \in Conns |-> <<>>]
    /\ nextMsgId = 0

\* chat: the handler returns when the registry does not know the socket.
\* Otherwise the message is created and io.emit sends it; a Chat message with
\* content is then saved to the Context Provider (honcho.peer,
\* session.addMessages) before the handler goes on; without content the
\* handler goes on at once
ChatWith(c, dataMetadata) ==
    /\ connStatus[c] = "open"
    /\ Len(events) < MaxBusEvents
    /\ events' = Received("chat", c, Lookup(c))
    /\ IF Missing(Lookup(c))
       THEN UNCHANGED <<nextMsgId, handled, outbox, pending, chatHistory, appendLog,
                        agentEvents>>
       ELSE \E hasContent \in BOOLEAN :
        LET m == ChatMessage(c, Lookup(c), hasContent, dataMetadata)
        IN  /\ nextMsgId' = nextMsgId + 1
            /\ handled' = Handled(m, TRUE, <<>>)
            /\ outbox' = IoEmit(m)
            /\ IF hasContent
               THEN /\ pending' = pending \cup {m}
                    /\ UNCHANGED <<chatHistory, appendLog, agentEvents>>
               ELSE /\ chatHistory' = AddToHistory(chatHistory, m)
                    /\ appendLog' = Append(appendLog, m)
                    /\ agentEvents' = NotifyAgents(m, "chat_message", {})
                    /\ UNCHANGED pending
    /\ UNCHANGED <<connStatus, connectedUsers, agents, tasks, regs, regDone, loaded, srvPhase,
                   retryVars, agentVars, apiVars, schedVars, restVars>>

\* a chat event without metadata
Chat(c) == ChatWith(c, NoMetadata)

\* the awaits of broadcastMessage settle (a rejection is caught): the chat
\* handler adds the message to the history and notifies the agents
ChatSaved(m) ==
    /\ m \in pending
    /\ pending' = pending \ {m}
    /\ \E ok \in BOOLEAN :
        /\ handled' = Saved(m, ok)
        /\ IF BroadcastReturns(ok)
           THEN /\ chatHistory' = AddToHistory(chatHistory, m)
                /\ appendLog' = Append(appendLog, m)
                /\ agentEvents' = NotifyAgents(m, "chat_message", {})
           ELSE UNCHANGED <<chatHistory, appendLog, agentEvents>>
    /\ UNCHANGED <<events, loaded, srvPhase, retryVars, agentVars, srvVars, apiVars, schedVars,
                   restVars>>

\* agent_response: the handler returns when the socket is not an agent of
\* the registry; otherwise io.emit, addToHistory
AgentResponse(c) ==
    /\ connStatus[c] = "open"
    /\ Len(events) < MaxBusEvents
    /\ events' = Received("agent_response", c, AgentLookup(c))
    /\ IF Missing(AgentLookup(c))
       THEN UNCHANGED <<nextMsgId, handled, outbox, chatHistory, appendLog>>
       ELSE LET m == BusMessage("agent_response", AgentLookup(c).username, c, TRUE)
            IN  /\ nextMsgId' = nextMsgId + 1
                /\ handled' = Handled(m, TRUE, <<>>)
                /\ outbox' = IoEmit(m)
                /\ chatHistory' = AddToHistory(chatHistory, m)
                /\ appendLog' = Append(appendLog, m)
    /\ UNCHANGED <<connStatus, connectedUsers, agents, tasks, regs, regDone, loaded, srvPhase,
                   pending, agentEvents, retryVars, agentVars, apiVars, schedVars, restVars>>

\* data.targets of an agent_data event: lists of socket ids, one of them of
\* no socket
TargetLists ==
    { <<>>, <<ConnIds[1]>>, <<ConnIds[2]>>, <<ConnIds[1], ConnIds[2]>>,
      <<ConnIds[1], ConnIds[1]>>, <<"gone">> }

\* every socket gets the message, listed or not
EmitToTargetsAll(boxes, targets, m) ==
    [d \in Conns |-> IF connStatus[d] = "open" THEN Deliver(boxes[d], m.id) ELSE boxes[d]]

\* data.targets.forEach: the message is emitted to the socket of every
\* target id the registry knows, in list order
RECURSIVE EmitToTargets(_, _, _)
EmitToTargets(boxes, targets, m) ==
    IF Len(targets) = 0 THEN boxes
    ELSE LET t == targets[1]
             next == IF t \in Conns /\ Lookup(t).id # None /\ connStatus[t] = "open"
                     THEN [boxes EXCEPT ![t] = Deliver(@, m.id)]
                     ELSE boxes
         IN  EmitToTargets(next, Tail(targets), m)

\* agent_data: the handler returns when the socket is not an agent of the
\* registry; otherwise the message is broadcast (io.emit, addToHistory), or
\* sent to data.targets, or neither; then the other agents are notified
AgentData(c) ==
    /\ connStatus[c] = "open"
    /\ Len(events) < MaxBusEvents
    /\ events' = Received("agent_data", c, AgentLookup(c))
    /\ IF Missing(AgentLookup(c))
       THEN UNCHANGED <<nextMsgId, handled, outbox, chatHistory, appendLog, agentEvents>>
       ELSE
       LET m == BusMessage("agent_data", AgentLookup(c).username, c, TRUE)
       IN  /\ nextMsgId' = nextMsgId + 1
           /\ \/ /\ handled' = Handled(m, TRUE, <<>>)
                 /\ outbox' = IoEmit(m)
                 /\ chatHistory' = AddToHistory(chatHistory, m)
                 /\ appendLog' = Append(appendLog, m)
              \/ /\ \E targets \in TargetLists :
                        /\ handled' = Handled(m, FALSE, targets)
                        /\ outbox' = EmitToTargets(outbox, targets, m)
                 /\ UNCHANGED <<chatHistory, appendLog>>
           /\ agentEvents' = NotifyAgents(m, "agent_data", {c})
    /\ UNCHANGED <<connStatus, connectedUsers, agents, tasks, regs, regDone, loaded, srvPhase,
                   pending, retryVars, agentVars, apiVars, schedVars, restVars>>

BNext ==
    \/ \E c \in Conns : Connect(c)
    \/ \E c \in Conns : Disconnect(c)
    \/ \E c \in Conns : Chat(c)
    \/ \E m \in pending : ChatSaved(m)
    \/ \E c \in Conns : AgentResponse(c)
    \/ \E c \in Conns : AgentData(c)

SpecBus == BInit /\ [][BNext]_vars

\* the position of message id in the outbox of c (0 when it is not there)
PositionIn(box, id) ==
    IF \E k \in 1..Len(box) : box[k] = id
    THEN CHOOSE k \in 1..Len(box) : box[k] = id
    ELSE 0

\* C19: for any two Chat messages m1 and m2 whose chat events the server
\* starts handling in that order, every connection that is live for both
\* receives m1 before m2 on its message channel.
C19_ChatOrderPreserved ==
    \A i, j \in 1..Len(handled) :
        (i < j /\ handled[i].type = "chat" /\ handled[j].type = "chat") =>
            \A c \in handled[i].live \cap handled[j].live :
                /\ PositionIn(outbox[c], handled[i].id) > 0
                /\ PositionIn(outbox[c], handled[i].id) < PositionIn(outbox[c], handled[j].id)

\* two Chat messages with content, both delivered to both sockets in the order
\* of their events, while the history holds them in the other order
C19_Witness ==
    /\ Len(handled) >= 2
    /\ handled[1].type = "chat" /\ handled[2].type = "chat"
    /\ handled[1].live = Conns /\ handled[2].live = Conns
    /\ \A c \in Conns : SubSeq(outbox[c], 1, 2) = <<handled[1].id, handled[2].id>>
    /\ Len(chatHistory) = 2
    /\ chatHistory[1].id = handled[2].id
    /\ chatHistory[2].id = handled[1].id

\* C20: no single Message is delivered to the same connection more than once
\* on the message channel, for every event kind: chat, agent_response, join,
\* leave, and agent_data whether broadcast or directed to any targets list.
C20_NoDuplicateDelivery ==
    \A c \in Conns :
        \A k1, k2 \in 1..Len(outbox[c]) : k1 # k2 => outbox[c][k1] # outbox[c][k2]

InBox(c, id) == \E k \in 1..Len(outbox[c]) : outbox[c][k] = id

InAppendLog(id) == \E k \in 1..Len(appendLog) : appendLog[k].id = id

TargetSet(targets) == { targets[k] : k \in 1..Len(targets) }

MaxRequests == 3

AInitRegistry(H, A, flags) ==
    /\ connectedUsers = [c \in H |-> [id |-> c, username |-> BusUsername(c),
                                      type |-> "human", observe_me |-> flags[c]]]
    /\ agents = [c \in A |-> [id |-> c, username |-> BusUsername(c), type |-> "agent"]]
    /\ peerObserve = [u \in { BusUsername(c) : c \in H } |->
                        flags[CHOOSE c \in H : BusUsername(c) = u]]

KInit ==
    /\ HistIdle
    /\ RetryIdle
    /\ AgentIdle
    /\ ApiIdle
    /\ SchedIdle
    /\ BusIdle
    /\ connStatus \in [Conns -> {"none", "open"}]
    /\ \E H \in SUBSET { c \in Conns : connStatus[c] = "open" } :
        \E A \in SUBSET ({ c \in Conns : connStatus[c] = "open" } \ H) :
            \E flags \in [H -> BOOLEAN] : AInitRegistry(H, A, flags)
    /\ tasks = {}
    /\ regs = [c \in Conns |-> <<>>]
    /\ regDone = [c \in Conns |-> 0]
    /\ outbox = [c \in Conns |-> <<>>]
    /\ nextMsgId = 0
    /\ requests = <<>>
    /\ reqTasks = {}
    /\ CacheIdle
    /\ OverlapIdle

\* a request arrives: its entry in requests, with the acks it got at once
Request(kind, c, acks, error) ==
    Append(requests, [kind |-> kind, conn |-> c, acks |-> acks, error |-> error,
                      ended |-> acks > 0])

\* callback(...) of the handler of request no; ended: the handler is over
Ack(no, error) ==
    [requests EXCEPT ![no] = [@ EXCEPT !.acks = @ + 1, !.error = error, !.ended = TRUE]]

\* the handler of request no ended without calling callback
EndsUnacked(no) == [requests EXCEPT ![no] = [@ EXCEPT !.ended = TRUE]]

\* get_history: no await, the callback is called once
GetHistoryRequest(c) ==
    /\ connStatus[c] = "open"
    /\ Len(requests) < MaxRequests
    /\ requests' = Request("get_history", c, 1, FALSE)
    /\ LET ack == getHistory(chatHistory, 0, None, 0)
       IN  histAck' = [limit |-> 0, messageType |-> None, since |-> 0,
                       history |-> ack.history, total |-> ack.total, asked |-> TRUE]
    /\ UNCHANGED <<validation, peerObserve, reqTasks, histVars, retryVars, agentVars, srvVars,
                   schedVars, busVars, cacheVars, overlapVars>>

\* get_users: no await, the callback is called once
GetUsersRequest(c) ==
    /\ connStatus[c] = "open"
    /\ Len(requests) < MaxRequests
    /\ requests' = Request("get_users", c, 1, FALSE)
    /\ UNCHANGED <<peerObserve, reqTasks, histVars, retryVars, agentVars, srvVars,
                   apiVars, schedVars, busVars, cacheVars, overlapVars>>

\* dialectic: honcho.peer(data.user) is awaited
Dialectic(c) ==
    /\ connStatus[c] = "open"
    /\ Len(requests) < MaxRequests
    /\ requests' = Request("dialectic", c, 0, FALSE)
    /\ reqTasks' = reqTasks \cup {[no |-> Len(requests) + 1, kind |-> "dialectic", conn |-> c,
                                   pc |-> "peer", username |-> <<>>, newObserve |-> FALSE]}
    /\ UNCHANGED <<peerObserve, histVars, retryVars, agentVars, srvVars, apiVars, schedVars,
                   busVars, cacheVars, overlapVars>>

\* honcho.peer resolved: peer.chat is awaited
DialecticPeerResolves(t) ==
    /\ t \in reqTasks
    /\ t.kind = "dialectic" /\ t.pc = "peer"
    /\ reqTasks' = (reqTasks \ {t}) \cup {[t EXCEPT !.pc = "chat"]}
    /\ UNCHANGED <<peerObserve, requests, histVars, retryVars, agentVars, srvVars, apiVars,
                   schedVars, busVars, cacheVars, overlapVars>>

\* peer.chat resolved: callback(response || "No response from agent")
DialecticChatResolves(t) ==
    /\ t \in reqTasks
    /\ t.kind = "dialectic" /\ t.pc = "chat"
    /\ reqTasks' = reqTasks \ {t}
    /\ requests' = Ack(t.no, FALSE)
    /\ UNCHANGED <<peerObserve, histVars, retryVars, agentVars, srvVars, apiVars, schedVars,
                   busVars, cacheVars, overlapVars>>

\* honcho.peer or peer.chat rejected: the handler has no try, the rejection
\* leaves it and callback is not called
DialecticRejects(t) ==
    /\ t \in reqTasks
    /\ t.kind = "dialectic"
    /\ reqTasks' = reqTasks \ {t}
    /\ requests' = EndsUnacked(t.no)
    /\ UNCHANGED <<peerObserve, histVars, retryVars, agentVars, srvVars, apiVars, schedVars,
                   busVars, cacheVars, overlapVars>>

\* toggle_observe: without a user record the ack is an error; with one,
\* user.observe_me is flipped and stored in the map, then honcho.peer is awaited
ToggleObserve(c) ==
    /\ connStatus[c] = "open"
    /\ Len(requests) < MaxRequests
    /\ IF c \notin DOMAIN connectedUsers
       THEN /\ requests' = Request("toggle_observe", c, 1, TRUE)
            /\ UNCHANGED <<connectedUsers, reqTasks>>
       ELSE LET newObserveStatus == ~connectedUsers[c].observe_me
            IN  /\ requests' = Request("toggle_observe", c, 0, FALSE)
                /\ connectedUsers' = [connectedUsers EXCEPT ![c].observe_me = newObserveStatus]
                /\ reqTasks' = reqTasks \cup
                        {[no |-> Len(requests) + 1, kind |-> "toggle_observe", conn |-> c,
                          pc |-> "peer", username |-> connectedUsers[c].username,
                          newObserve |-> newObserveStatus]}
    /\ UNCHANGED <<connStatus, agents, tasks, regs, regDone, outbox, nextMsgId, peerObserve,
                   histVars, retryVars, agentVars, apiVars, schedVars, busVars, cacheVars, overlapVars>>

\* honcho.peer resolved: user_peer.setPeerConfig is awaited
TogglePeerResolves(t) ==
    /\ t \in reqTasks
    /\ t.kind = "toggle_observe" /\ t.pc = "peer"
    /\ reqTasks' = (reqTasks \ {t}) \cup {[t EXCEPT !.pc = "setPeerConfig"]}
    /\ UNCHANGED <<peerObserve, requests, histVars, retryVars, agentVars, srvVars, apiVars,
                   schedVars, busVars, cacheVars, overlapVars>>

\* setPeerConfig resolved: the config is stored, the status message goes to
\* the socket and into the history, the ack reports success
ToggleConfigResolves(t) ==
    /\ t \in reqTasks
    /\ t.kind = "toggle_observe" /\ t.pc = "setPeerConfig"
    /\ reqTasks' = reqTasks \ {t}
    /\ peerObserve' = [peerObserve EXCEPT ![t.username] = t.newObserve]
    /\ LET m == [id |-> nextMsgId + 1, type |-> "system", username |-> "system",
                 about |-> t.username, observeStatus |-> t.newObserve]
       IN  /\ nextMsgId' = nextMsgId + 1
           /\ outbox' = IF connStatus[t.conn] = "open"
                        THEN [outbox EXCEPT ![t.conn] = Deliver(@, m.id)] ELSE outbox
           /\ chatHistory' = AddToHistory(chatHistory, m)
           /\ appendLog' = Append(appendLog, m)
    /\ requests' = Ack(t.no, FALSE)
    /\ UNCHANGED <<connStatus, connectedUsers, agents, tasks, regs, regDone, loaded, srvPhase,
                   retryVars, agentVars, apiVars, schedVars, busVars, cacheVars, overlapVars>>

\* honcho.peer or setPeerConfig rejected: the catch block acks the error; the
\* user record is not touched again
ToggleRejects(t) ==
    /\ t \in reqTasks
    /\ t.kind = "toggle_observe"
    /\ reqTasks' = reqTasks \ {t}
    /\ requests' = Ack(t.no, TRUE)
    /\ UNCHANGED <<peerObserve, histVars, retryVars, agentVars, srvVars, apiVars, schedVars,
                   busVars, cacheVars, overlapVars>>

KNext ==
    \/ \E c \in Conns : Disconnect(c)
    \/ \E c \in Conns : GetHistoryRequest(c)
    \/ \E c \in Conns : GetUsersRequest(c)
    \/ \E c \in Conns : Dialectic(c)
    \/ \E t \in reqTasks : DialecticPeerResolves(t)
    \/ \E t \in reqTasks : DialecticChatResolves(t)
    \/ \E t \in reqTasks : DialecticRejects(t)
    \/ \E c \in Conns : ToggleObserve(c)
    \/ \E t \in reqTasks : TogglePeerResolves(t)
    \/ \E t \in reqTasks : ToggleConfigResolves(t)
    \/ \E t \in reqTasks : ToggleRejects(t)

SpecAck == KInit /\ [][KNext]_vars

\* no toggle_observe handler of socket c is suspended
TogglesAcknowledged(c) == \A t \in reqTasks : ~(t.kind = "toggle_observe" /\ t.conn = c)

\* C22: after every toggle_observe request has been acknowledged, the
\* participant's in-memory observe flag equals the flag persisted at the
\* Context Provider (on failure the in-memory flag keeps its earlier value).
C22_ObserveFlagMatchesPersisted ==
    \A c \in DOMAIN connectedUsers :
        TogglesAcknowledged(c) =>
            connectedUsers[c].observe_me = peerObserve[connectedUsers[c].username]

\* C23: every get_history, get_users, dialectic and toggle_observe request
\* whose handler is over has received exactly one ack response, including
\* when the Context Provider call made on its behalf failed.
C23_EveryRequestAckedOnce ==
    \A i \in 1..Len(requests) : requests[i].ended => requests[i].acks = 1

(***************************************************************************)
(* Claims on events of sockets the registry does not know (SpecBus)        *)
(***************************************************************************)

\* the step handled an event whose sender the registry did not know
UnknownSenderEvent ==
    /\ Len(events') = Len(events) + 1
    /\ ~events'[Len(events')].known

\* C40: a chat event from a connection that is not in the registry, and an
\* agent_data or agent_response event from a connection that is not registered
\* as an agent, changes nothing: no message is delivered, no agent is
\* notified, the history and the registry are unchanged.
C40_UnknownSenderChangesNothing ==
    [][UnknownSenderEvent =>
          UNCHANGED <<outbox, agentEvents, pending, handled, chatHistory, appendLog,
                      connectedUsers, agents, nextMsgId>>]_vars

\* a chat, an agent_data and an agent_response event of a socket that is not
\* registered while an agent is: nothing was delivered or stored
C40_Witness ==
    /\ Len(events) = 3
    /\ { events[i].kind : i \in 1..3 } = {"chat", "agent_data", "agent_response"}
    /\ \A i \in 1..3 : ~events[i].known
    /\ \E c \in Conns : connStatus[c] = "open" /\ c \in DOMAIN agents
    /\ \A c \in Conns : outbox[c] = <<>> /\ agentEvents[c] = <<>>
    /\ chatHistory = <<>>

(***************************************************************************)
(* Claims on a chat message whose save is never answered (SpecBusLive)     *)
(***************************************************************************)

\* the chat handler alone
LNext ==
    \/ \E c \in Conns : Chat(c)
    \/ \E m \in pending : ChatSaved(m)

\* the event loop runs the handler of every chat event that arrived; nothing
\* is assumed of the Context Provider: the awaits of broadcastMessage may
\* never settle, and ChatSaved is what follows their settling
SpecBusLive == BInit /\ [][LNext]_vars /\ WF_vars(\E c \in Conns : Chat(c))

ChatPending(id) == \E m \in pending : m.id = id

\* C38: every Chat message the server has delivered to the connections is
\* eventually appended to the history and announced to the agents, even if
\* the Context Provider never answers the save made for it.
C38_DeliveredChatEventuallyAppended ==
    \A id \in 1..MaxBusEvents : ChatPending(id) ~> InAppendLog(id)

(***************************************************************************)
(* Agent: getPeer and this.peerCache (ChatAgent.getPeer)                   *)
(* Calls of getPeer overlap when invocations of the agent overlap: each is *)
(* an async call that suspends on honcho.peer.                             *)
(***************************************************************************)

\* bound: getPeer calls in a behaviour
MaxGetPeers == 4

PeerNames == {StrBot1, StrAlice}

\* the other variables, which getPeer leaves alone
CacheFrame ==
    UNCHANGED <<histVars, retryVars, agentVars, srvVars, apiVars, schedVars, busVars, reqVars,
                overlapVars, sessVars>>

CInit ==
    /\ HistIdle
    /\ RetryIdle
    /\ AgentIdle
    /\ ServerIdle
    /\ ExtIdle

GetPeerStarted == Len(peerReturns) + Cardinality(peerCalls)

\* getPeer(username) with this.peerCache.has(username): the entry is returned
GetPeerHit(username) ==
    /\ GetPeerStarted < MaxGetPeers
    /\ username \in DOMAIN peerCache
    /\ peerReturns' = Append(peerReturns, [username |-> username, handle |-> peerCache[username],
                                           remote |-> FALSE, after |-> Len(peerReturns)])
    /\ UNCHANGED <<peerCache, peerCalls, peerRemote>>
    /\ CacheFrame

\* getPeer(username) without an entry: retryApiCall(honcho.peer) is awaited
GetPeerMiss(username) ==
    /\ GetPeerStarted < MaxGetPeers
    /\ peerRemote < MaxGetPeers
    /\ username \notin DOMAIN peerCache
    /\ peerRemote' = peerRemote + 1
    /\ peerCalls' = peerCalls \cup {[no |-> peerRemote + 1, username |-> username,
                                     after |-> Len(peerReturns)]}
    /\ UNCHANGED <<peerCache, peerReturns>>
    /\ CacheFrame

\* the handle honcho.peer resolves with: one built by this call, or (the SDK
\* is free to hand out one object per name) the one the cache holds
PeerHandles(t) ==
    {t.no} \cup (IF t.username \in DOMAIN peerCache THEN {peerCache[t.username]} ELSE {})

\* honcho.peer resolved: peerCache.set, and the entry is returned
PeerResolves(t) ==
    /\ t \in peerCalls
    /\ peerCalls' = peerCalls \ {t}
    /\ \E h \in PeerHandles(t) :
        /\ peerCache' = MapSet(peerCache, t.username, h)
        /\ peerReturns' = Append(peerReturns, [username |-> t.username, handle |-> h,
                                               remote |-> TRUE, after |-> t.after])
    /\ UNCHANGED peerRemote
    /\ CacheFrame

\* retryApiCall threw: getPeer throws, nothing is stored
PeerRejects(t) ==
    /\ t \in peerCalls
    /\ peerCalls' = peerCalls \ {t}
    /\ UNCHANGED <<peerCache, peerReturns, peerRemote>>
    /\ CacheFrame

CNext ==
    \/ \E u \in PeerNames : GetPeerHit(u)
    \/ \E u \in PeerNames : GetPeerMiss(u)
    \/ \E t \in peerCalls : PeerResolves(t)
    \/ \E t \in peerCalls : PeerRejects(t)

SpecCache == CInit /\ [][CNext]_vars

\* C24: once getPeer(name) has returned a handle, every getPeer(name) called
\* later returns that same handle without issuing a remote call.
C24_LaterGetPeerSameHandle ==
    \A i, j \in 1..Len(peerReturns) :
        (i < j /\ peerReturns[j].after >= i
               /\ peerReturns[j].username = peerReturns[i].username) =>
            /\ peerReturns[j].handle = peerReturns[i].handle
            /\ ~peerReturns[j].remote

(***************************************************************************)
(* Agent: getSession, this.sessionCache and the session_id events          *)
(* (SpecSession). A restarted server names its session after its start     *)
(* time, so the id of a later session_id event can differ from the         *)
(* earlier one.                                                            *)
(***************************************************************************)

\* bound: getSession calls in a behaviour
MaxGetSessions == 3

\* the ids a server sends in session_id
SessionIds == {"s1", "s2"}

SessionFrame ==
    UNCHANGED <<histVars, retryVars, agentVars, srvVars, apiVars, schedVars, busVars, reqVars,
                overlapVars, peerCache, peerCalls, peerReturns, peerRemote>>

GetSessionStarted == Len(sessionReturns) + Cardinality(sessionCalls)

SessionReturn(kind, handle) == [kind |-> kind, handle |-> handle, current |-> sessionId]

\* getSession() without this.sessionId: it throws
GetSessionThrows ==
    /\ GetSessionStarted < MaxGetSessions
    /\ sessionId = None
    /\ sessionReturns' = Append(sessionReturns, SessionReturn("threw", None))
    /\ UNCHANGED <<sessionCache, sessionCalls>>
    /\ SessionFrame

\* getSession() with this.sessionCache set: it is returned
GetSessionHit ==
    /\ GetSessionStarted < MaxGetSessions
    /\ sessionId # None
    /\ sessionCache # None
    /\ sessionReturns' = Append(sessionReturns, SessionReturn("hit", sessionCache))
    /\ UNCHANGED <<sessionCache, sessionCalls>>
    /\ SessionFrame

\* getSession() without this.sessionCache: retryApiCall makes its first
\* attempt, honcho.session(this.sessionId), and is awaited
GetSessionMiss ==
    /\ GetSessionStarted < MaxGetSessions
    /\ sessionId # None
    /\ sessionCache = None
    /\ sessionCalls' = sessionCalls \cup {[no |-> GetSessionStarted + 1, sid |-> sessionId,
                                           attempt |-> 0]}
    /\ UNCHANGED <<sessionCache, sessionReturns>>
    /\ SessionFrame

\* an attempt rejects and retryApiCall has retries left: after its delay the
\* arrow function is called again and reads this.sessionId again
SessionAttemptFails(t) ==
    /\ t \in sessionCalls
    /\ t.attempt < DefaultMaxRetries
    /\ sessionCalls' = (sessionCalls \ {t}) \cup
                        {[t EXCEPT !.sid = sessionId, !.attempt = @ + 1]}
    /\ UNCHANGED <<sessionCache, sessionReturns>>
    /\ SessionFrame

\* the attempt resolved: this.sessionCache is assigned and returned
SessionResolves(t) ==
    /\ t \in sessionCalls
    /\ sessionCalls' = sessionCalls \ {t}
    /\ sessionCache' = t.sid
    /\ sessionReturns' = Append(sessionReturns, SessionReturn("fetched", t.sid))
    /\ SessionFrame

\* retryApiCall threw: getSession throws, nothing is stored
SessionRejects(t) ==
    /\ t \in sessionCalls
    /\ sessionCalls' = sessionCalls \ {t}
    /\ sessionReturns' = Append(sessionReturns, SessionReturn("rejected", None))
    /\ UNCHANGED sessionCache
    /\ SessionFrame

SessNext ==
    \/ SocketConnects
    \/ SocketDisconnects
    \/ \E sid \in SessionIds : SessionIdArrives(sid)
    \/ GetSessionThrows
    \/ GetSessionHit
    \/ GetSessionMiss
    \/ \E t \in sessionCalls : SessionAttemptFails(t)
    \/ \E t \in sessionCalls : SessionResolves(t)
    \/ \E t \in sessionCalls : SessionRejects(t)

SpecSession == CInit /\ [][SessNext]_vars

\* C34: every handle getSession returns is the handle of the session named by
\* the agent's sessionId at that moment, also after a session_id event with
\* an id that differs from the earlier one.
C34_GetSessionFollowsSessionId ==
    \A i \in 1..Len(sessionReturns) :
        sessionReturns[i].kind \in {"hit", "fetched"} =>
            sessionReturns[i].handle = sessionReturns[i].current

\* C33: when several overlapping pipeline steps call getPeer for the same
\* name that is not cached yet, exactly one remote fetch is issued for it: no
\* two honcho.peer calls for one name are ever suspended at the same time.
C33_OverlappingMissesFetchOnce ==
    \A t1, t2 \in peerCalls : t1.username = t2.username => t1 = t2

(***************************************************************************)
(* Claims on the decision trace of a reply (SpecAgent)                     *)
(***************************************************************************)

ResultTypes == {"psychology_result", "search_result"}

ResultTypeOf(choice) == IF choice = "psychology" THEN "psychology_result" ELSE "search_result"

CountType(log, type) == Cardinality({ k \in 1..Len(log) : log[k].type = type })

\* the order of a full trace: the gate's entry, then tool-selection entries,
\* each followed by the result of the tool it started if it started one, then
\* the entry of the response
WellOrderedTrace(log) ==
    /\ Len(log) >= 3
    /\ log[1].type = "should_respond"
    /\ log[Len(log)].type = "response_generated"
    /\ \A k \in 2..(Len(log) - 1) :
        \/ /\ log[k].type = "action_decision"
           /\ \/ log[k + 1].type = "response_generated"
              \/ /\ log[k].detail \in {"psychology", "search"}
                 /\ log[k + 1].type = ResultTypeOf(log[k].detail)
        \/ /\ log[k].type \in ResultTypes
           /\ log[k - 1].type = "action_decision"
           /\ log[k + 1].type = "action_decision"
    /\ log[2].type = "action_decision"

\* C26: every emitted reply carries as agentDecisions the full decision trace
\* of its invocation in the order the stages happened: the should_respond
\* entry first, then one action_decision entry per tool-selection call with
\* one result entry after each executed tool, the response_generated entry last.
C26_ReplyCarriesOrderedTrace ==
    \A i \in 1..Len(emitted) :
        LET log == emitted[i].agentDecisions
        IN  /\ WellOrderedTrace(log)
            /\ CountType(log, "action_decision") = calls.select
            /\ CountType(log, "psychology_result") = toolRuns.psychology
            /\ CountType(log, "search_result") = toolRuns.search
            /\ log = decisionLog

\* a reply after both tools ran: seven entries
C26_Witness ==
    /\ Len(emitted) = 1
    /\ toolRuns.psychology = 1 /\ toolRuns.search = 1
    /\ Len(emitted[1].agentDecisions) = 7
    /\ emitted[1].agentDecisions[3].type \in ResultTypes
    /\ emitted[1].agentDecisions[5].type \in ResultTypes

(***************************************************************************)
(* Claims on the ticks of the proactive timer (SpecProactive)              *)
(***************************************************************************)

\* a tick went past the silence test: considerProactiveMessage was called
\* with a session id and goes on to its remote calls
EvaluationStarts == evals' # evals /\ Cardinality(evals') > Cardinality(evals)

\* C27: on a timer tick the proactive pipeline is invoked only if the time
\* since the last Chat message broadcast in the room (whoever sent it) exceeds
\* the interval; a tick inside the interval makes no remote call.
C27_TickOnlyAfterRoomSilence ==
    [][EvaluationStarts => now - roomChatTime > AutonomousInterval]_vars

\* C35: at most one proactive evaluation of an agent is in flight at any
\* time: a tick never starts considerProactiveMessage while an earlier one is
\* still suspended on a remote call (stated for an agent with one timer).
C35_OneEvaluationInFlight ==
    Len(timers) <= 1 => Cardinality(evals) <= 1

(***************************************************************************)
(* Server: the metadata of a Chat message (SpecMeta): chat events that     *)
(* carry metadata of the client's choosing                                 *)
(***************************************************************************)

\* data.metadata of a chat event: none, a key of the client's own, the
\* server's keys
ClientMetadata ==
    { NoMetadata,
      "mood" :> "happy",
      ("userId" :> "c9") @@ ("userType" :> "agent"),
      "timestamp" :> 0 }

MNext ==
    \/ \E c \in Conns : \E d \in ClientMetadata : ChatWith(c, d)
    \/ \E m \in pending : ChatSaved(m)

SpecMeta == BInit /\ [][MNext]_vars

\* the Chat messages the server has broadcast
BroadcastChats ==
    pending \cup { appendLog[k] : k \in { j \in 1..Len(appendLog) : appendLog[j].type = "chat" } }

\* C36: in every Chat message the server broadcasts, userId and userType are
\* the sending connection's id and its registered kind and timestamp is the
\* server's creation time, whatever metadata the chat event carried.
C36_ServerAttributesNotOverridable ==
    \A m \in BroadcastChats :
        /\ m.metadata["userId"] = m.from
        /\ m.metadata["userType"] = Lookup(m.from).type
        /\ m.metadata["timestamp"] = m.created

(***************************************************************************)
(* Claims on a chat message whose save fails (SpecBus)                     *)
(***************************************************************************)

Notified(d, id) ==
    \E k \in 1..Len(agentEvents[d]) :
        agentEvents[d][k] = [eventType |-> "chat_message", id |-> id]

\* C28: if persisting a Chat message to the Context Provider fails, the
\* message is still delivered to all live connections, appended to the History
\* Ring and announced to agents, and the server goes on processing later events.
C28_FailedSaveStillPublishes ==
    \A i \in 1..Len(handled) :
        handled[i].saved = "failed" =>
            /\ \A c \in handled[i].live : InBox(c, handled[i].id)
            /\ InAppendLog(handled[i].id)
            /\ \A d \in DOMAIN agents : connStatus[d] = "open" => Notified(d, handled[i].id)
            /\ \A j \in 1..Len(handled) :
                (j > i /\ handled[j].broadcast) =>
                    \A c \in handled[j].live : InBox(c, handled[j].id)

\* a chat whose save failed reached both sockets, the history and an agent,
\* and a chat handled after the failure was published too
C28_Witness ==
    /\ Len(handled) >= 2
    /\ handled[1].saved = "failed"
    /\ handled[1].live = Conns
    /\ \A c \in Conns : InBox(c, handled[1].id)
    /\ InAppendLog(handled[1].id)
    /\ \E d \in DOMAIN agents : Notified(d, handled[1].id)
    /\ handled[2].type = "chat"
    /\ pending = {}
    /\ appendLog[Len(appendLog)].id = handled[2].id
    /\ appendLog[1].id = handled[1].id

(***************************************************************************)
(* A ChatAgent joins: the register event its connect handler emits         *)
(* (ChatAgent.connect) and the server's register handler (socket.ts)       *)
(***************************************************************************)

\* the payload of the agent's register event
AgentRegisterData == [username |-> StrBot1, type |-> "user"]

\* the agent's socket c got "connect": register is emitted with
\* AgentRegisterData, and the server's handler takes its branch for a type
\* other than "agent": honcho.peer is awaited before anything is stored
ChatAgentRegisters(c) ==
    /\ connStatus[c] = "open"
    /\ RegisterEvents < MaxRegisterEvents
    /\ LET d == AgentRegisterData
           r == [no |-> Len(regs[c]) + 1, username |-> d.username, type |-> d.type]
       IN  /\ regs' = [regs EXCEPT ![c] = Append(@, r)]
           /\ IF d.type = "agent"
              THEN /\ agents' = MapSet(agents, c, [id |-> c, username |-> d.username,
                                                   type |-> "agent"])
                   /\ tasks' = tasks \cup {[conn |-> c, no |-> r.no, username |-> d.username,
                                            type |-> "agent", pc |-> "peer",
                                            observe_me |-> FALSE]}
              ELSE /\ tasks' = tasks \cup {[conn |-> c, no |-> r.no, username |-> d.username,
                                            type |-> d.type, pc |-> "peer",
                                            observe_me |-> TRUE]}
                   /\ UNCHANGED agents
    /\ UNCHANGED <<connStatus, connectedUsers, regDone, outbox, nextMsgId,
                   histVars, retryVars, agentVars, extVars>>

JNext ==
    \/ \E c \in Conns : Connect(c)
    \/ \E c \in Conns : ChatAgentRegisters(c)
    \/ \E t \in tasks : RegisterAwaitRejects(t)
    \/ \E t \in tasks : RegisterPeerResolves(t)
    \/ \E t \in tasks : RegisterConfigResolves(t)
    \/ \E t \in tasks : RegisterHumanCompletes(t)
    \/ \E c \in Conns : Disconnect(c)

SpecJoin == SInit /\ [][JNext]_vars

\* C29: every connected ChatAgent is registered at the server as kind agent:
\* after its register event is processed it is in the agent registry (listed
\* under agents by get_users, never under users).
C29_ChatAgentListedAsAgent ==
    \A c \in Conns :
        (connStatus[c] = "open" /\ regDone[c] > 0) =>
            /\ \E a \in GetUsers.agents : a.id = c
            /\ \A u \in GetUsers.users : u.id # c

(***************************************************************************)
(* Claims on the local check of the gate (SpecGate)                        *)
(***************************************************************************)

\* C30: the local 'addressed to other agent' check never suppresses a message
\* whose content names the receiving agent itself (with or without a leading
\* @, in any letter case), whatever the agent's name is and whichever other
\* agents the message also names.
C30_OwnNameNeverSuppressedLocally ==
    (GateHasRun /\ ContainsNameToken(msg.content, agentName)) =>
        gateDecision.reason # "Message addressed to other agent(s)"

(***************************************************************************)
(* ChatAgent: invocations of the Decision Engine that overlap              *)
(* socket.on("message") awaits processMessage but the socket hands the     *)
(* next message event to a new call of the handler while the first is      *)
(* suspended.  decisionLog and tracker are objects on the heap; every      *)
(* entry and every tool result carries, as a ghost, the message that was   *)
(* being processed when it was produced.                                   *)
(***************************************************************************)

\* bound: message events that start processMessage in a behaviour
MaxInvocations == 2

\* bound: tool-selection calls of one of these invocations
MaxOverlapSelections == 3

\* one array for all invocations
SharedRef(heap) == 1

\* const decisionLog: any[] = []  /  { contextMessages }: a new object
NewRef(heap) == Len(heap) + 1

NoResult == [value |-> "undefined", src |-> 0]

\* the tracker as UseTool reads it
TrackerValues(t) == [psychology |-> t.psychology.value, search |-> t.search.value]

OverlapFrame ==
    UNCHANGED <<histVars, retryVars, agentVars, srvVars, apiVars, schedVars, busVars, reqVars,
                cacheVars>>

OInit ==
    /\ HistIdle
    /\ RetryIdle
    /\ AgentIdle
    /\ ServerIdle
    /\ ExtIdle

SetRun(i, r) == [runs EXCEPT ![i] = r]

PushTo(ref, type, detail, src) ==
    IF ref \in DOMAIN heapLogs
    THEN [heapLogs EXCEPT ![ref] = Push(@, [type |-> type, detail |-> detail, src |-> src])]
    ELSE Append(heapLogs, <<[type |-> type, detail |-> detail, src |-> src]>>)

\* a chat of another participant arrives (the session id is set): the head of
\* processMessage allocates decisionLog and awaits getSession
OStart ==
    /\ Len(runs) < MaxInvocations
    /\ LET ref == NewRef(heapLogs)
       IN  /\ runs' = Append(runs, [src |-> Len(runs) + 1, pc |-> "context", log |-> ref,
                                    trk |-> 0, selects |-> 0])
           /\ heapLogs' = IF ref \in DOMAIN heapLogs THEN heapLogs ELSE Append(heapLogs, <<>>)
    /\ UNCHANGED <<heapTrackers, replies>>
    /\ OverlapFrame

\* getSession and session.getContext settle: a rejection leaves
\* processMessage; otherwise shouldRespond makes the gate's completion call
OContext(i) ==
    /\ runs[i].pc = "context"
    /\ \E ok \in BOOLEAN : runs' = SetRun(i, [runs[i] EXCEPT !.pc = IF ok THEN "gateLLM" ELSE "done"])
    /\ UNCHANGED <<heapLogs, heapTrackers, replies>>
    /\ OverlapFrame

\* the gate settles: the decision is pushed; on should_respond the tracker
\* object is built and decideAction makes its tool-selection call
OGate(i) ==
    /\ runs[i].pc = "gateLLM"
    /\ \E answer \in GateAnswers \ {"null"} :
        LET d == ParsedGate(answer)
            ref == NewRef(heapTrackers)
        IN  /\ heapLogs' = PushTo(runs[i].log, "should_respond", d.reason, runs[i].src)
            /\ IF d.should_respond
               THEN /\ heapTrackers' = Append(heapTrackers,
                                              [psychology |-> NoResult, search |-> NoResult])
                    /\ runs' = SetRun(i, [runs[i] EXCEPT !.pc = "select", !.trk = ref,
                                                         !.selects = 1])
               ELSE /\ runs' = SetRun(i, [runs[i] EXCEPT !.pc = "done"])
                    /\ UNCHANGED heapTrackers
    /\ UNCHANGED replies
    /\ OverlapFrame

\* the tool-selection call fails (the catch of decideAction returns)
OSelectFails(i) ==
    /\ runs[i].pc = "select"
    /\ runs' = SetRun(i, [runs[i] EXCEPT !.pc = "done"])
    /\ UNCHANGED <<heapLogs, heapTrackers, replies>>
    /\ OverlapFrame

\* the tool-selection call gives a decision: it is pushed, and a tool or
\* generateResponse starts
OSelect(i) ==
    /\ runs[i].pc = "select"
    /\ \E choice \in {"psychology", "search", "respond"} :
        /\ heapLogs' = PushTo(runs[i].log, "action_decision", choice, runs[i].src)
        /\ runs' = SetRun(i, [runs[i] EXCEPT !.pc =
                        IF UseTool(choice, TrackerValues(heapTrackers[runs[i].trk]))
                        THEN choice ELSE "synth"])
    /\ UNCHANGED <<heapTrackers, replies>>
    /\ OverlapFrame

\* analyzePsychology / search returns (undefined after a swallowed error):
\* the result is stored in the tracker and pushed, decideAction is called again
OTool(i) ==
    /\ runs[i].pc \in {"psychology", "search"}
    /\ runs[i].selects < MaxOverlapSelections
    /\ \E value \in {"text", "undefined"} :
        LET result == IF value = "undefined" THEN NoResult
                      ELSE [value |-> value, src |-> runs[i].src]
        IN  /\ heapTrackers' = [heapTrackers EXCEPT ![runs[i].trk][runs[i].pc] = result]
            /\ heapLogs' = PushTo(runs[i].log, ResultTypeOf(runs[i].pc), value, runs[i].src)
    /\ runs' = SetRun(i, [runs[i] EXCEPT !.pc = "select", !.selects = @ + 1])
    /\ UNCHANGED replies
    /\ OverlapFrame

\* the completion of generateResponse: an empty one or a rejection ends the
\* invocation; otherwise response_generated is pushed and the chat event is
\* emitted with the decision log; the prompt was built from the tracker
OSynth(i) ==
    /\ runs[i].pc = "synth"
    /\ runs' = SetRun(i, [runs[i] EXCEPT !.pc = "done"])
    /\ \E c \in Completions :
        IF ~c.ok \/ IsEmptyCompletion(c)
        THEN UNCHANGED <<heapLogs, replies>>
        ELSE /\ heapLogs' = PushTo(runs[i].log, "response_generated", "preview", runs[i].src)
             /\ replies' = Append(replies, [src |-> runs[i].src,
                                            agentDecisions |-> heapLogs'[runs[i].log],
                                            tools |-> heapTrackers[runs[i].trk],
                                            overlapped |-> \E j \in 1..Len(runs) :
                                                             j # i /\ runs[j].pc # "done"])
    /\ UNCHANGED heapTrackers
    /\ OverlapFrame

ONext ==
    \/ OStart
    \/ \E i \in 1..Len(runs) : OContext(i)
    \/ \E i \in 1..Len(runs) : OGate(i)
    \/ \E i \in 1..Len(runs) : OSelectFails(i)
    \/ \E i \in 1..Len(runs) : OSelect(i)
    \/ \E i \in 1..Len(runs) : OTool(i)
    \/ \E i \in 1..Len(runs) : OSynth(i)

SpecOverlap == OInit /\ [][ONext]_vars

\* C25: two Decision Engine invocations of one agent that overlap in time
\* share no tool results and no decision-trace entries: the trace attached to
\* each reply contains only entries produced while processing that reply's own
\* source message (and the reply was built from tool results of that message).
C25_OverlappingInvocationsShareNothing ==
    \A k \in 1..Len(replies) :
        LET r == replies[k]
        IN  /\ \A e \in 1..Len(r.agentDecisions) : r.agentDecisions[e].src = r.src
            /\ r.tools.psychology.src \in {0, r.src}
            /\ r.tools.search.src \in {0, r.src}
            /\ r.agentDecisions[1].type = "should_respond"

\* the second message was answered first, while the first invocation was
\* suspended after its tool had run; then the first was answered too
C25_Witness ==
    /\ Len(replies) = 2
    /\ replies[1].src = 2 /\ replies[1].overlapped
    /\ replies[2].src = 1
    /\ replies[2].tools.psychology.value = "text"
    /\ replies[1].tools.search.value = "text"
    /\ Len(replies[2].agentDecisions) >= 5

(***************************************************************************)
(* Claims on the order of the history (SpecBus)                            *)
(***************************************************************************)

\* the position of message id in the history (0 when it is not there)
HistoryPosition(id) ==
    IF \E k \in 1..Len(chatHistory) : chatHistory[k].id = id
    THEN CHOOSE k \in 1..Len(chatHistory) : chatHistory[k].id = id
    ELSE 0

\* C31: for any two Chat messages, their relative order in the History Ring
\* equals the order in which they were broadcast to the connections, in every
\* interleaving of chat handlers.
C31_HistoryOrderIsBroadcastOrder ==
    \A i, j \in 1..Len(handled) :
        (/\ i < j
         /\ handled[i].type = "chat" /\ handled[j].type = "chat"
         /\ HistoryPosition(handled[i].id) > 0
         /\ HistoryPosition(handled[j].id) > 0) =>
            HistoryPosition(handled[i].id) < HistoryPosition(handled[j].id)

(***************************************************************************)
(* Claims on the join and leave messages of a connection (Spec)            *)
(***************************************************************************)

\* C32: for every connection, its Leave message is appended to the History
\* Ring only after its Join message: the history never holds a Leave of a
\* connection followed later by a Join of the same connection, even when the
\* connection drops while its register handler is suspended.
C32_LeaveNeverBeforeJoin ==
    \A i, j \in 1..Len(appendLog) :
        (i < j /\ appendLog[i].type = "leave" /\ appendLog[j].type = "join") =>
            appendLog[i].conn # appendLog[j].conn

====
